---- MODULE Spec2Model ----
(***************************************************************************)
(* Order lifecycle engine of void-products-api: the Order entity and its   *)
(* status state machine, Order.Validate, the order Service                 *)
(* (Create / GetByCode / PartialUpdate / Modify / GetAll / GetMetrics),    *)
(* the Mongo repository it writes through, and the boundary handlers       *)
(* (POST / PATCH / PUT, the public tracking GET, the paginated list).      *)
(*                                                                         *)
(* Specifications: Spec (service calls on one order), SpecValidate         *)
(* (Order.Validate as a function), SpecHandler (PATCH requests),           *)
(* SpecPartialUpdate (the optional fields of PartialUpdate), SpecCreate    *)
(* (Create over several orders), SpecConcurrent (interleaved Create        *)
(* calls), SpecValidated (inputs Validate rejects), SpecBoundary (the      *)
(* three mutating requests), SpecMetrics (GetMetrics), SpecTopProducts     *)
(* (the product ranking of GetMetrics), SpecList (the paginated list),     *)
(* SpecTrack (public tracking), SpecSameCode and SpecOtherCodes            *)
(* (interleaved updates of one order and of two), SpecFaults (repository   *)
(* calls that fail), SpecNotFound (calls on codes that are not stored),    *)
(* SpecLifecycle (the statuses of one order under PartialUpdate),          *)
(* SpecModify (PUT with and without line items), SpecStock (the stock of   *)
(* the Product entity), SpecCORS (the CORS middleware).                    *)
(*                                                                         *)
(* Conventions.  A Go pointer is a sequence of length <= 1: None is the    *)
(* nil pointer, Some(v) points at v.  A Go error is the chain of its       *)
(* %w-wrapped layers, outermost first: NoErr is the nil error.  A method   *)
(* with a pointer receiver that mutates the order is an operator that      *)
(* returns the error together with the order after the call.               *)
(* OrderProduct.Description / Observation are opaque pass-through strings  *)
(* no operation reads; they are not carried.                               *)
(***************************************************************************)
EXTENDS Integers, Sequences, FiniteSets, TLC

VARIABLES
    orders,   \* the documents of the orders collection
    now,      \* the wall clock read by time.Now()
    last,     \* the last call: operation, arguments, result
    calls     \* the Create and update calls in flight, by goroutine

vars == <<orders, now, last, calls>>

-----------------------------------------------------------------------------
(* Bounds *)

MaxTime == 1
MaxPrice == 2
MaxQuantity == 2

-----------------------------------------------------------------------------
(* Pointers and errors *)

None == <<>>
Some(v) == <<v>>
IsNil(p) == p = <<>>
Deref(p) == p[1]

NoErr == <<>>
Err(e) == <<e>>
Wrap(msg, err) == <<msg>> \o err
ErrorsIs(err, target) == \E i \in 1..Len(err) : err[i] = target

-----------------------------------------------------------------------------
(* internal/domain/order: constants *)

StatusCreated == "CREATED"
StatusVerified == "VERIFIED"
StatusInProgress == "IN_PROGRESS"
StatusOutForDelivery == "OUT_FOR_DELIVERY"
StatusDelivered == "DELIVERED"
StatusCancelled == "CANCELLED"

SaleTypeDelivery == "DELIVERY"
SaleTypeOnSite == "ON_SITE"

ErrOrderNotFound == "order not found"
ErrInvalidOrderCode == "invalid order code"
ErrOrderCodeAlreadyExists == "order code already exists"
ErrNoProducts == "order must contain at least one product"
ErrInvalidProductID == "product ID is required"
ErrInvalidProductName == "product name is required"
ErrInvalidProductQuantity == "product quantity must be greater than 0"
ErrInvalidProductPrice == "product price must be greater than or equal to 0"
ErrDuplicateProduct == "duplicate product in order"
ErrProductsNotAllowedInPatch == "products cannot be updated via PATCH, use PUT instead"
ErrCustomerRequiredForDelivery == "customer information is required for delivery orders"
ErrCustomerNameRequired == "customer name is required"
ErrCustomerPhoneRequired == "customer phone is required"
ErrShippingAddressRequired == "shipping address is required for delivery orders"
ErrShippingAddressNotAllowedForOnSite == "shipping address is not allowed for on-site orders"
ErrTableNumberRequiredForOnSite == "table number is required for on-site orders"
ErrTableNumberNotAllowedForDelivery == "table number is not allowed for delivery orders"
ErrInvalidTableNumber == "invalid table number"
ErrTotalMismatch == "provided total does not match calculated total"
ErrInvalidSaleType == "invalid sale type"
ErrInvalidStatus == "invalid order status"
ErrInvalidStatusTransition == "invalid status transition"
ErrOrderCannotBeModified == "order cannot be modified in current status"

\* The six recognized statuses, and two strings that are none of them.
Statuses ==
    {StatusCreated, StatusVerified, StatusInProgress,
     StatusOutForDelivery, StatusDelivered, StatusCancelled}
StatusValues == Statuses \cup {"SHIPPED", ""}

-----------------------------------------------------------------------------
(* internal/domain/order: the Order entity *)

\* CalculateTotal: total := 0; for each product, total += Price * Quantity
RECURSIVE CalculateTotalFrom(_, _, _)
CalculateTotalFrom(products, i, total) ==
    IF i > Len(products) THEN total
    ELSE CalculateTotalFrom(products, i + 1,
                            total + products[i].Price * products[i].Quantity)

CalculateTotal(o) == [o EXCEPT !.Total = CalculateTotalFrom(o.Products, 1, 0)]

\* Mutant: the total is left at zero.
NewOrderWithoutTotal(saleType, products, id, code, t) ==
    [ID |-> id, Code |-> code, Status |-> StatusCreated, SaleType |-> saleType,
     Products |-> products, Total |-> 0,
     Note |-> None, Customer |-> None, ShippingAddress |-> None,
     TableNumber |-> None, PaymentReceiptURL |-> None, PaymentAccountID |-> None,
     CreatedAt |-> t, UpdatedAt |-> t]

NewOrder(saleType, products, id, code, t) ==
    CalculateTotal(
        [ID |-> id, Code |-> code, Status |-> StatusCreated, SaleType |-> saleType,
         Products |-> products, Total |-> 0,
         Note |-> None, Customer |-> None, ShippingAddress |-> None,
         TableNumber |-> None, PaymentReceiptURL |-> None, PaymentAccountID |-> None,
         CreatedAt |-> t, UpdatedAt |-> t])

validStatuses ==
    <<StatusCreated, StatusVerified, StatusInProgress,
      StatusOutForDelivery, StatusDelivered, StatusCancelled>>

IsValidStatus(status) ==
    \E i \in 1..Len(validStatuses) : validStatuses[i] = status

\* Mutant: a delivered order may still be cancelled.
validTransitionsDeliveredReopens ==
    (StatusCreated :> <<StatusVerified, StatusInProgress, StatusCancelled>>)
    @@ (StatusVerified :> <<StatusInProgress, StatusCancelled>>)
    @@ (StatusInProgress :> <<StatusOutForDelivery, StatusDelivered, StatusCancelled>>)
    @@ (StatusOutForDelivery :> <<StatusDelivered, StatusCancelled>>)
    @@ (StatusDelivered :> <<StatusCancelled>>)
    @@ (StatusCancelled :> <<>>)

\* Mutant: an order out for delivery can be taken back to preparation.
validTransitionsWithReturn ==
    (StatusCreated :> <<StatusVerified, StatusInProgress, StatusCancelled>>)
    @@ (StatusVerified :> <<StatusInProgress, StatusCancelled>>)
    @@ (StatusInProgress :> <<StatusOutForDelivery, StatusDelivered, StatusCancelled>>)
    @@ (StatusOutForDelivery :> <<StatusInProgress, StatusDelivered, StatusCancelled>>)
    @@ (StatusDelivered :> <<>>)
    @@ (StatusCancelled :> <<>>)

validTransitions ==
    (StatusCreated :> <<StatusVerified, StatusInProgress, StatusCancelled>>)
    @@ (StatusVerified :> <<StatusInProgress, StatusCancelled>>)
    @@ (StatusInProgress :> <<StatusOutForDelivery, StatusDelivered, StatusCancelled>>)
    @@ (StatusOutForDelivery :> <<StatusDelivered, StatusCancelled>>)
    @@ (StatusDelivered :> <<>>)
    @@ (StatusCancelled :> <<>>)

\* Mutant: the current status counts as an allowed target.
CanTransitionToAllowsSelf(o, newStatus) ==
    IF o.Status \notin DOMAIN validTransitions THEN FALSE
    ELSE LET allowedStatuses == validTransitions[o.Status]
         IN  \/ o.Status = newStatus
             \/ \E i \in 1..Len(allowedStatuses) : allowedStatuses[i] = newStatus

CanTransitionTo(o, newStatus) ==
    IF o.Status \notin DOMAIN validTransitions THEN FALSE
    ELSE LET allowedStatuses == validTransitions[o.Status]
         IN  \E i \in 1..Len(allowedStatuses) : allowedStatuses[i] = newStatus

\* Mutant: an order out for delivery is not listed.
immutableStatusesWithoutOutForDelivery == <<StatusDelivered, StatusCancelled>>

immutableStatuses == <<StatusOutForDelivery, StatusDelivered, StatusCancelled>>

\* Mutant: an order can be modified in every status.
CanBeModifiedAlways(o) == o.Status \in DOMAIN validTransitions

CanBeModified(o) ==
    ~ \E i \in 1..Len(immutableStatuses) : o.Status = immutableStatuses[i]

\* Mutant: the timestamp is written before the checks.
UpdateStatusStampsFirst(o, newStatus, t) ==
    LET o1 == [o EXCEPT !.UpdatedAt = t]
    IN  IF ~IsValidStatus(newStatus) THEN [err |-> Err(ErrInvalidStatus), o |-> o1]
        ELSE IF ~CanTransitionTo(o, newStatus)
             THEN [err |-> Err(ErrInvalidStatusTransition), o |-> o1]
        ELSE [err |-> NoErr, o |-> [o1 EXCEPT !.Status = newStatus]]

UpdateStatus(o, newStatus, t) ==
    IF ~IsValidStatus(newStatus) THEN [err |-> Err(ErrInvalidStatus), o |-> o]
    ELSE IF ~CanTransitionTo(o, newStatus)
         THEN [err |-> Err(ErrInvalidStatusTransition), o |-> o]
    ELSE [err |-> NoErr, o |-> [o EXCEPT !.Status = newStatus, !.UpdatedAt = t]]

\* Mutant: the total is not recalculated.
UpdateProductsStaleTotal(o, products, t) ==
    IF ~CanBeModified(o) THEN [err |-> Err(ErrOrderCannotBeModified), o |-> o]
    ELSE IF Len(products) = 0 THEN [err |-> Err(ErrNoProducts), o |-> o]
    ELSE [err |-> NoErr,
          o |-> [o EXCEPT !.Products = products,
                          !.Status = StatusVerified, !.UpdatedAt = t]]

\* Mutant: the status is not forced to VERIFIED.
UpdateProductsKeepsStatus(o, products, t) ==
    IF ~CanBeModified(o) THEN [err |-> Err(ErrOrderCannotBeModified), o |-> o]
    ELSE IF Len(products) = 0 THEN [err |-> Err(ErrNoProducts), o |-> o]
    ELSE [err |-> NoErr,
          o |-> [CalculateTotal([o EXCEPT !.Products = products])
                    EXCEPT !.UpdatedAt = t]]

UpdateProducts(o, products, t) ==
    IF ~CanBeModified(o) THEN [err |-> Err(ErrOrderCannotBeModified), o |-> o]
    ELSE IF Len(products) = 0 THEN [err |-> Err(ErrNoProducts), o |-> o]
    ELSE [err |-> NoErr,
          o |-> [CalculateTotal([o EXCEPT !.Products = products])
                    EXCEPT !.Status = StatusVerified, !.UpdatedAt = t]]

\* Mutant: the quantity of a line item is not checked.
RECURSIVE ValidateProductsQuantityUnchecked(_, _)
ValidateProductsQuantityUnchecked(products, i) ==
    IF i > Len(products) THEN NoErr
    ELSE IF products[i].ID = "" THEN Err(ErrInvalidProductID)
    ELSE IF products[i].Name = "" THEN Err(ErrInvalidProductName)
    ELSE IF products[i].Price < 0 THEN Err(ErrInvalidProductPrice)
    ELSE IF \E j \in (i + 1)..Len(products) : products[j].ID = products[i].ID
         THEN Err(ErrDuplicateProduct)
    ELSE ValidateProductsQuantityUnchecked(products, i + 1)

\* The product loop of Validate: for item i the four field checks, then the
\* scan of the later items for the same ID, then item i+1.
RECURSIVE ValidateProducts(_, _)
ValidateProducts(products, i) ==
    IF i > Len(products) THEN NoErr
    ELSE IF products[i].ID = "" THEN Err(ErrInvalidProductID)
    ELSE IF products[i].Name = "" THEN Err(ErrInvalidProductName)
    ELSE IF products[i].Quantity <= 0 THEN Err(ErrInvalidProductQuantity)
    ELSE IF products[i].Price < 0 THEN Err(ErrInvalidProductPrice)
    ELSE IF \E j \in (i + 1)..Len(products) : products[j].ID = products[i].ID
         THEN Err(ErrDuplicateProduct)
    ELSE ValidateProducts(products, i + 1)

\* Mutant: a delivery customer's phone is not checked.
ValidateSaleTypePhoneUnchecked(o) ==
    IF o.SaleType = SaleTypeDelivery THEN
        IF IsNil(o.Customer) THEN Err(ErrCustomerRequiredForDelivery)
        ELSE IF Deref(o.Customer).Name = "" THEN Err(ErrCustomerNameRequired)
        ELSE IF IsNil(o.ShippingAddress) \/ Deref(o.ShippingAddress) = ""
             THEN Err(ErrShippingAddressRequired)
        ELSE IF ~IsNil(o.TableNumber) THEN Err(ErrTableNumberNotAllowedForDelivery)
        ELSE NoErr
    ELSE IF o.SaleType = SaleTypeOnSite THEN
        IF IsNil(o.TableNumber) THEN Err(ErrTableNumberRequiredForOnSite)
        ELSE IF Deref(o.TableNumber) <= 0 THEN Err(ErrInvalidTableNumber)
        ELSE IF ~IsNil(o.ShippingAddress) THEN Err(ErrShippingAddressNotAllowedForOnSite)
        ELSE NoErr
    ELSE Err(ErrInvalidSaleType)

\* Mutant: table number 0 is accepted.
ValidateSaleTypeTableZeroAllowed(o) ==
    IF o.SaleType = SaleTypeDelivery THEN
        IF IsNil(o.Customer) THEN Err(ErrCustomerRequiredForDelivery)
        ELSE IF Deref(o.Customer).Name = "" THEN Err(ErrCustomerNameRequired)
        ELSE IF Deref(o.Customer).Phone = "" THEN Err(ErrCustomerPhoneRequired)
        ELSE IF IsNil(o.ShippingAddress) \/ Deref(o.ShippingAddress) = ""
             THEN Err(ErrShippingAddressRequired)
        ELSE IF ~IsNil(o.TableNumber) THEN Err(ErrTableNumberNotAllowedForDelivery)
        ELSE NoErr
    ELSE IF o.SaleType = SaleTypeOnSite THEN
        IF IsNil(o.TableNumber) THEN Err(ErrTableNumberRequiredForOnSite)
        ELSE IF Deref(o.TableNumber) < 0 THEN Err(ErrInvalidTableNumber)
        ELSE IF ~IsNil(o.ShippingAddress) THEN Err(ErrShippingAddressNotAllowedForOnSite)
        ELSE NoErr
    ELSE Err(ErrInvalidSaleType)

\* Mutant: an on-site order's shipping address is not checked.
ValidateSaleTypeOnSiteAddressUnchecked(o) ==
    IF o.SaleType = SaleTypeDelivery THEN
        IF IsNil(o.Customer) THEN Err(ErrCustomerRequiredForDelivery)
        ELSE IF Deref(o.Customer).Name = "" THEN Err(ErrCustomerNameRequired)
        ELSE IF Deref(o.Customer).Phone = "" THEN Err(ErrCustomerPhoneRequired)
        ELSE IF IsNil(o.ShippingAddress) \/ Deref(o.ShippingAddress) = ""
             THEN Err(ErrShippingAddressRequired)
        ELSE IF ~IsNil(o.TableNumber) THEN Err(ErrTableNumberNotAllowedForDelivery)
        ELSE NoErr
    ELSE IF o.SaleType = SaleTypeOnSite THEN
        IF IsNil(o.TableNumber) THEN Err(ErrTableNumberRequiredForOnSite)
        ELSE IF Deref(o.TableNumber) <= 0 THEN Err(ErrInvalidTableNumber)
        ELSE NoErr
    ELSE Err(ErrInvalidSaleType)

\* The sale-type switch of Validate.
ValidateSaleType(o) ==
    IF o.SaleType = SaleTypeDelivery THEN
        IF IsNil(o.Customer) THEN Err(ErrCustomerRequiredForDelivery)
        ELSE IF Deref(o.Customer).Name = "" THEN Err(ErrCustomerNameRequired)
        ELSE IF Deref(o.Customer).Phone = "" THEN Err(ErrCustomerPhoneRequired)
        ELSE IF IsNil(o.ShippingAddress) \/ Deref(o.ShippingAddress) = ""
             THEN Err(ErrShippingAddressRequired)
        ELSE IF ~IsNil(o.TableNumber) THEN Err(ErrTableNumberNotAllowedForDelivery)
        ELSE NoErr
    ELSE IF o.SaleType = SaleTypeOnSite THEN
        IF IsNil(o.TableNumber) THEN Err(ErrTableNumberRequiredForOnSite)
        ELSE IF Deref(o.TableNumber) <= 0 THEN Err(ErrInvalidTableNumber)
        ELSE IF ~IsNil(o.ShippingAddress) THEN Err(ErrShippingAddressNotAllowedForOnSite)
        ELSE NoErr
    ELSE Err(ErrInvalidSaleType)

Validate(o) ==
    IF Len(o.Products) = 0 THEN Err(ErrNoProducts)
    ELSE IF ValidateProducts(o.Products, 1) # NoErr THEN ValidateProducts(o.Products, 1)
    ELSE IF ValidateSaleType(o) # NoErr THEN ValidateSaleType(o)
    ELSE IF ~IsValidStatus(o.Status) THEN Err(ErrInvalidStatus)
    ELSE NoErr

-----------------------------------------------------------------------------
(* internal/repository: orderMongoRepository over the orders collection.   *)
(* The collection has the unique _id index and the unique index on code.   *)

ExistsByCode(docs, code) == Cardinality({d \in docs : d.Code = code}) > 0

\* Mutant: mongo.ErrNoDocuments is not recognised and is wrapped like any
\* other error of FindOne.
FindByCodeWrapsNoDocuments(docs, code) ==
    IF \A d \in docs : d.Code # code
    THEN [err |-> Wrap("failed to find order", Err("mongo: no documents in result")),
          o |-> None]
    ELSE [err |-> NoErr, o |-> Some(CHOOSE d \in docs : d.Code = code)]

FindByCode(docs, code) ==
    IF \A d \in docs : d.Code # code
    THEN [err |-> Err(ErrOrderNotFound), o |-> None]
    ELSE [err |-> NoErr, o |-> Some(CHOOSE d \in docs : d.Code = code)]

\* Mutant: the collection has no unique index on code.
RepoCreateWithoutCodeIndex(docs, o) ==
    IF \E d \in docs : d.ID = o.ID
    THEN [err |-> Err(ErrOrderCodeAlreadyExists), docs |-> docs]
    ELSE [err |-> NoErr, docs |-> docs \cup {o}]

\* InsertOne: a duplicate-key error of either unique index.
RepoCreate(docs, o) ==
    IF \E d \in docs : d.ID = o.ID \/ d.Code = o.Code
    THEN [err |-> Err(ErrOrderCodeAlreadyExists), docs |-> docs]
    ELSE [err |-> NoErr, docs |-> docs \cup {o}]

\* {"$set": o}: the bson encoding of o leaves out the omitempty fields that
\* are nil, so the document keeps what it had in them.
SetDoc(d, o) ==
    [o EXCEPT !.Note = IF IsNil(o.Note) THEN d.Note ELSE @,
              !.Customer = IF IsNil(o.Customer) THEN d.Customer ELSE @,
              !.ShippingAddress = IF IsNil(o.ShippingAddress) THEN d.ShippingAddress ELSE @,
              !.TableNumber = IF IsNil(o.TableNumber) THEN d.TableNumber ELSE @,
              !.PaymentReceiptURL = IF IsNil(o.PaymentReceiptURL) THEN d.PaymentReceiptURL ELSE @,
              !.PaymentAccountID = IF IsNil(o.PaymentAccountID) THEN d.PaymentAccountID ELSE @]

\* Mutant: Update stamps the creation timestamp too.
RepoUpdateStampsCreatedAt(docs, o, t) ==
    LET o1 == [o EXCEPT !.UpdatedAt = t, !.CreatedAt = t]
    IN  IF \A d \in docs : d.ID # o1.ID
        THEN [err |-> Err(ErrOrderNotFound), docs |-> docs, o |-> o1]
        ELSE [err |-> NoErr,
              docs |-> {IF d.ID = o1.ID THEN SetDoc(d, o1) ELSE d : d \in docs},
              o |-> o1]

\* Update: o.UpdatedAt = time.Now(), then UpdateOne by _id.
RepoUpdate(docs, o, t) ==
    LET o1 == [o EXCEPT !.UpdatedAt = t]
    IN  IF \A d \in docs : d.ID # o1.ID
        THEN [err |-> Err(ErrOrderNotFound), docs |-> docs, o |-> o1]
        ELSE [err |-> NoErr,
              docs |-> {IF d.ID = o1.ID THEN SetDoc(d, o1) ELSE d : d \in docs},
              o |-> o1]

-----------------------------------------------------------------------------
(* internal/domain/order: Service.  Each operator is one call: the error,   *)
(* the returned order, the in-memory order when the call returns, and the   *)
(* collection after it.                                                     *)

Result(err, order, mem, docs) ==
    [err |-> err, order |-> order, mem |-> mem, docs |-> docs]

\* id is uuid.New(); code1 and code2 are the first and the second
\* generateOrderCode().
SvcCreate(docs, input, id, code1, code2, t) ==
    LET o1 == [NewOrder(input.SaleType, input.Products, id, code1, t)
                  EXCEPT !.Note = input.Note,
                         !.Customer = input.Customer,
                         !.ShippingAddress = input.ShippingAddress,
                         !.TableNumber = input.TableNumber,
                         !.PaymentReceiptURL = input.PaymentReceiptURL,
                         !.PaymentAccountID = input.PaymentAccountID]
        verr == Validate(o1)
    IN  IF verr # NoErr
        THEN Result(Wrap("validation error", verr), None, Some(o1), docs)
        ELSE LET o2 == IF ExistsByCode(docs, o1.Code)
                       THEN [o1 EXCEPT !.Code = code2] ELSE o1
                 c == RepoCreate(docs, o2)
             IN  IF c.err # NoErr
                 THEN Result(Wrap("failed to create order", c.err), None, Some(o2), docs)
                 ELSE Result(NoErr, Some(o2), Some(o2), c.docs)

\* Mutant: a supplied payment receipt is also stored as the payment account.
SvcPartialUpdateReceiptSetsAccount(docs, code, input, t) ==
    IF code = "" THEN Result(Err(ErrInvalidOrderCode), None, None, docs)
    ELSE LET f == FindByCode(docs, code)
    IN  IF f.err # NoErr THEN Result(f.err, None, None, docs)
        ELSE LET u == IF ~IsNil(input.Status)
                      THEN UpdateStatus(Deref(f.o), Deref(input.Status), t)
                      ELSE [err |-> NoErr, o |-> Deref(f.o)]
        IN  IF u.err # NoErr THEN Result(u.err, None, Some(u.o), docs)
            ELSE LET o1 == [u.o EXCEPT
                               !.Note = IF ~IsNil(input.Note) THEN input.Note ELSE @,
                               !.PaymentReceiptURL =
                                   IF ~IsNil(input.PaymentReceiptURL)
                                   THEN input.PaymentReceiptURL ELSE @,
                               !.PaymentAccountID =
                                   IF ~IsNil(input.PaymentAccountID)
                                   THEN input.PaymentAccountID
                                   ELSE IF ~IsNil(input.PaymentReceiptURL)
                                        THEN input.PaymentReceiptURL ELSE @]
                     w == RepoUpdate(docs, o1, t)
                 IN  IF w.err # NoErr
                     THEN Result(Wrap("failed to update order", w.err), None, Some(w.o), docs)
                     ELSE Result(NoErr, Some(w.o), Some(w.o), w.docs)

SvcPartialUpdate(docs, code, input, t) ==
    IF code = "" THEN Result(Err(ErrInvalidOrderCode), None, None, docs)
    ELSE LET f == FindByCode(docs, code)
    IN  IF f.err # NoErr THEN Result(f.err, None, None, docs)
        ELSE LET u == IF ~IsNil(input.Status)
                      THEN UpdateStatus(Deref(f.o), Deref(input.Status), t)
                      ELSE [err |-> NoErr, o |-> Deref(f.o)]
        IN  IF u.err # NoErr THEN Result(u.err, None, Some(u.o), docs)
            ELSE LET o1 == [u.o EXCEPT
                               !.Note = IF ~IsNil(input.Note) THEN input.Note ELSE @,
                               !.PaymentReceiptURL =
                                   IF ~IsNil(input.PaymentReceiptURL)
                                   THEN input.PaymentReceiptURL ELSE @,
                               !.PaymentAccountID =
                                   IF ~IsNil(input.PaymentAccountID)
                                   THEN input.PaymentAccountID ELSE @]
                     w == RepoUpdate(docs, o1, t)
                 IN  IF w.err # NoErr
                     THEN Result(Wrap("failed to update order", w.err), None, Some(w.o), docs)
                     ELSE Result(NoErr, Some(w.o), Some(w.o), w.docs)

\* Mutant: the order becomes VERIFIED also when no line items are supplied.
SvcModifyAlwaysVerifies(docs, code, input, t) ==
    IF code = "" THEN Result(Err(ErrInvalidOrderCode), None, None, docs)
    ELSE LET f == FindByCode(docs, code)
    IN  IF f.err # NoErr THEN Result(f.err, None, None, docs)
        ELSE IF ~CanBeModified(Deref(f.o))
        THEN Result(Err(ErrOrderCannotBeModified), None, f.o, docs)
        ELSE LET u == IF Len(input.Products) > 0
                      THEN UpdateProducts(Deref(f.o), input.Products, t)
                      ELSE [err |-> NoErr,
                            o |-> [Deref(f.o) EXCEPT !.Status = StatusVerified]]
        IN  IF u.err # NoErr THEN Result(u.err, None, Some(u.o), docs)
            ELSE LET o1 == [u.o EXCEPT
                               !.ShippingAddress =
                                   IF ~IsNil(input.ShippingAddress)
                                   THEN input.ShippingAddress ELSE @,
                               !.Customer =
                                   IF ~IsNil(input.Customer) THEN input.Customer ELSE @,
                               !.Note = IF ~IsNil(input.Note) THEN input.Note ELSE @]
                     verr == Validate(o1)
                 IN  IF verr # NoErr
                     THEN Result(Wrap("validation error", verr), None, Some(o1), docs)
                     ELSE LET w == RepoUpdate(docs, o1, t)
                          IN  IF w.err # NoErr
                              THEN Result(Wrap("failed to update order", w.err),
                                          None, Some(w.o), docs)
                              ELSE Result(NoErr, Some(w.o), Some(w.o), w.docs)

\* Mutant: the order is written to the repository before it is validated.
SvcModifyWritesBeforeValidate(docs, code, input, t) ==
    IF code = "" THEN Result(Err(ErrInvalidOrderCode), None, None, docs)
    ELSE LET f == FindByCode(docs, code)
    IN  IF f.err # NoErr THEN Result(f.err, None, None, docs)
        ELSE IF ~CanBeModified(Deref(f.o))
        THEN Result(Err(ErrOrderCannotBeModified), None, f.o, docs)
        ELSE LET u == IF Len(input.Products) > 0
                      THEN UpdateProducts(Deref(f.o), input.Products, t)
                      ELSE [err |-> NoErr, o |-> Deref(f.o)]
        IN  IF u.err # NoErr THEN Result(u.err, None, Some(u.o), docs)
            ELSE LET o1 == [u.o EXCEPT
                               !.ShippingAddress =
                                   IF ~IsNil(input.ShippingAddress)
                                   THEN input.ShippingAddress ELSE @,
                               !.Customer =
                                   IF ~IsNil(input.Customer) THEN input.Customer ELSE @,
                               !.Note = IF ~IsNil(input.Note) THEN input.Note ELSE @]
                     w == RepoUpdate(docs, o1, t)
                     verr == Validate(o1)
                 IN  IF w.err # NoErr
                     THEN Result(Wrap("failed to update order", w.err),
                                 None, Some(w.o), docs)
                     ELSE IF verr # NoErr
                     THEN Result(Wrap("validation error", verr), None, Some(w.o), w.docs)
                     ELSE Result(NoErr, Some(w.o), Some(w.o), w.docs)

SvcModify(docs, code, input, t) ==
    IF code = "" THEN Result(Err(ErrInvalidOrderCode), None, None, docs)
    ELSE LET f == FindByCode(docs, code)
    IN  IF f.err # NoErr THEN Result(f.err, None, None, docs)
        ELSE IF ~CanBeModified(Deref(f.o))
        THEN Result(Err(ErrOrderCannotBeModified), None, f.o, docs)
        ELSE LET u == IF Len(input.Products) > 0
                      THEN UpdateProducts(Deref(f.o), input.Products, t)
                      ELSE [err |-> NoErr, o |-> Deref(f.o)]
        IN  IF u.err # NoErr THEN Result(u.err, None, Some(u.o), docs)
            ELSE LET o1 == [u.o EXCEPT
                               !.ShippingAddress =
                                   IF ~IsNil(input.ShippingAddress)
                                   THEN input.ShippingAddress ELSE @,
                               !.Customer =
                                   IF ~IsNil(input.Customer) THEN input.Customer ELSE @,
                               !.Note = IF ~IsNil(input.Note) THEN input.Note ELSE @]
                     verr == Validate(o1)
                 IN  IF verr # NoErr
                     THEN Result(Wrap("validation error", verr), None, Some(o1), docs)
                     ELSE LET w == RepoUpdate(docs, o1, t)
                          IN  IF w.err # NoErr
                              THEN Result(Wrap("failed to update order", w.err),
                                          None, Some(w.o), docs)
                              ELSE Result(NoErr, Some(w.o), Some(w.o), w.docs)

-----------------------------------------------------------------------------
(* internal/handler: OrderHandler, the HTTP boundary.  A request body is the *)
(* JSON object sent (Code "" when the object has no code; HasProducts: the   *)
(* object has a "products" key) behind c.Request.Body, a reader: what one    *)
(* ShouldBindJSON has read is not there for the next one.                    *)

StatusOK == 200
StatusBadRequest == 400
StatusNotFound == 404
StatusConflict == 409
StatusUnprocessableEntity == 422
StatusInternalServerError == 500

RequestBody(json) == [json |-> json, read |-> FALSE]

\* c.ShouldBindJSON(obj): json.NewDecoder(c.Request.Body).Decode(obj)
ShouldBindJSON(body) ==
    IF body.read
    THEN [err |-> Err("EOF"), json |-> None, body |-> body]
    ELSE [err |-> NoErr, json |-> Some(body.json), body |-> [body EXCEPT !.read = TRUE]]

\* The binding tags of PartialUpdateOrderRequest: code is required, status is
\* one of the six when present.
BindPartialUpdateOrderRequest(json) ==
    IF json.Code = "" THEN Err("Field validation for 'Code' failed on the 'required' tag")
    ELSE IF ~IsNil(json.Status) /\ Deref(json.Status) \notin
                {"CREATED", "VERIFIED", "IN_PROGRESS", "OUT_FOR_DELIVERY",
                 "DELIVERED", "CANCELLED"}
         THEN Err("Field validation for 'Status' failed on the 'oneof' tag")
    ELSE NoErr

ToPartialUpdateInput(r) ==
    [Status |-> r.Status, Note |-> r.Note,
     PaymentReceiptURL |-> r.PaymentReceiptURL, PaymentAccountID |-> r.PaymentAccountID]

\* Mutant: the conflict and not-found cases compare the error itself, not its
\* chain.
mapErrorToStatusCodeUnwrappedOnly(err) ==
    IF err = Err(ErrOrderNotFound) THEN StatusNotFound
    ELSE IF err = Err(ErrInvalidStatusTransition) THEN StatusConflict
    ELSE IF err = Err(ErrOrderCannotBeModified) THEN StatusConflict
    ELSE IF err = Err(ErrOrderCodeAlreadyExists) THEN StatusConflict
    ELSE IF \/ ErrorsIs(err, ErrNoProducts)
            \/ ErrorsIs(err, ErrInvalidProductID)
            \/ ErrorsIs(err, ErrInvalidProductName)
            \/ ErrorsIs(err, ErrInvalidProductQuantity)
            \/ ErrorsIs(err, ErrInvalidProductPrice)
            \/ ErrorsIs(err, ErrDuplicateProduct)
            \/ ErrorsIs(err, ErrCustomerRequiredForDelivery)
            \/ ErrorsIs(err, ErrCustomerNameRequired)
            \/ ErrorsIs(err, ErrCustomerPhoneRequired)
            \/ ErrorsIs(err, ErrShippingAddressRequired)
            \/ ErrorsIs(err, ErrTableNumberRequiredForOnSite)
            \/ ErrorsIs(err, ErrInvalidSaleType)
            \/ ErrorsIs(err, ErrInvalidStatus)
            \/ ErrorsIs(err, ErrTotalMismatch)
         THEN StatusUnprocessableEntity
    ELSE IF ErrorsIs(err, ErrProductsNotAllowedInPatch) THEN StatusBadRequest
    ELSE StatusInternalServerError

mapErrorToStatusCode(err) ==
    IF ErrorsIs(err, ErrOrderNotFound) THEN StatusNotFound
    ELSE IF ErrorsIs(err, ErrInvalidStatusTransition) THEN StatusConflict
    ELSE IF ErrorsIs(err, ErrOrderCannotBeModified) THEN StatusConflict
    ELSE IF ErrorsIs(err, ErrOrderCodeAlreadyExists) THEN StatusConflict
    ELSE IF \/ ErrorsIs(err, ErrNoProducts)
            \/ ErrorsIs(err, ErrInvalidProductID)
            \/ ErrorsIs(err, ErrInvalidProductName)
            \/ ErrorsIs(err, ErrInvalidProductQuantity)
            \/ ErrorsIs(err, ErrInvalidProductPrice)
            \/ ErrorsIs(err, ErrDuplicateProduct)
            \/ ErrorsIs(err, ErrCustomerRequiredForDelivery)
            \/ ErrorsIs(err, ErrCustomerNameRequired)
            \/ ErrorsIs(err, ErrCustomerPhoneRequired)
            \/ ErrorsIs(err, ErrShippingAddressRequired)
            \/ ErrorsIs(err, ErrTableNumberRequiredForOnSite)
            \/ ErrorsIs(err, ErrInvalidSaleType)
            \/ ErrorsIs(err, ErrInvalidStatus)
            \/ ErrorsIs(err, ErrTotalMismatch)
         THEN StatusUnprocessableEntity
    ELSE IF ErrorsIs(err, ErrProductsNotAllowedInPatch) THEN StatusBadRequest
    ELSE StatusInternalServerError

\* The response written, whether h.service.PartialUpdate was called, and the
\* service's result.
Response(status, err, serviceCalled, r) ==
    [status |-> status, err |-> err, serviceCalled |-> serviceCalled,
     order |-> r.order, mem |-> r.mem, docs |-> r.docs]

HandlerPartialUpdate(docs, body, t) ==
    LET notCalled == Result(NoErr, None, None, docs)
        b1 == ShouldBindJSON(body)
        bindErr == IF b1.err # NoErr THEN b1.err
                   ELSE BindPartialUpdateOrderRequest(Deref(b1.json))
    IN  IF bindErr # NoErr THEN Response(StatusBadRequest, bindErr, FALSE, notCalled)
        ELSE LET req == Deref(b1.json)
                 b2 == ShouldBindJSON(b1.body)
             IN  IF b2.err = NoErr /\ Deref(b2.json).HasProducts
                 THEN Response(StatusBadRequest, Err(ErrProductsNotAllowedInPatch),
                               FALSE, notCalled)
                 ELSE LET r == SvcPartialUpdate(docs, req.Code, ToPartialUpdateInput(req), t)
                      IN  IF r.err # NoErr
                          THEN Response(mapErrorToStatusCode(r.err), r.err, TRUE, r)
                          ELSE Response(StatusOK, NoErr, TRUE, r)

-----------------------------------------------------------------------------
(* internal/handler: OrderHandler.Create and OrderHandler.Modify.  A binding  *)
(* operator returns the first failing tag of the request; the handler         *)
(* answers 400 whichever tag failed.  A JSON object without a key has the     *)
(* zero value of the field: "" for a string, None for a pointer, <<>> for a   *)
(* list.                                                                      *)

HTTPStatusCreated == 201

BindingError(field, tag) ==
    Err("Field validation for '" \o field \o "' failed on the '" \o tag \o "' tag")

\* OrderProductRequest: id required; name required, min=1; price required,
\* gte=0; quantity required, gte=1.
BindOrderProductRequest(p) ==
    IF p.ID = "" THEN BindingError("ID", "required")
    ELSE IF p.Name = "" THEN BindingError("Name", "required")
    ELSE IF p.Price = 0 THEN BindingError("Price", "required")
    ELSE IF p.Price < 0 THEN BindingError("Price", "gte")
    ELSE IF p.Quantity = 0 THEN BindingError("Quantity", "required")
    ELSE IF p.Quantity < 1 THEN BindingError("Quantity", "gte")
    ELSE NoErr

\* dive: the first line item with a failing tag.
RECURSIVE BindProducts(_, _)
BindProducts(products, i) ==
    IF i > Len(products) THEN NoErr
    ELSE IF BindOrderProductRequest(products[i]) # NoErr
         THEN BindOrderProductRequest(products[i])
    ELSE BindProducts(products, i + 1)

\* CustomerRequest: identification required; id_type required, oneof; name
\* required, min=2, max=200; phone required, min=7, max=20.
BindCustomerRequest(c) ==
    IF c.Identification = "" THEN BindingError("Identification", "required")
    ELSE IF c.IDType = "" THEN BindingError("IDType", "required")
    ELSE IF c.IDType \notin {"CC", "CE", "PASSPORT", "NIT"} THEN BindingError("IDType", "oneof")
    ELSE IF c.Name = "" THEN BindingError("Name", "required")
    ELSE IF Len(c.Name) < 2 THEN BindingError("Name", "min")
    ELSE IF Len(c.Name) > 200 THEN BindingError("Name", "max")
    ELSE IF c.Phone = "" THEN BindingError("Phone", "required")
    ELSE IF Len(c.Phone) < 7 THEN BindingError("Phone", "min")
    ELSE IF Len(c.Phone) > 20 THEN BindingError("Phone", "max")
    ELSE NoErr

\* CreateOrderRequest: sale_type required, oneof; products required, min=1,
\* dive; note max=500; customer; shipping_address max=500; table_number
\* gte=1.  (payment_receipt_url: url, payment_account_id: the requests sent
\* have neither.)
BindCreateOrderRequest(json) ==
    IF json.SaleType = "" THEN BindingError("SaleType", "required")
    ELSE IF json.SaleType \notin {"DELIVERY", "ON_SITE"} THEN BindingError("SaleType", "oneof")
    ELSE IF Len(json.Products) < 1 THEN BindingError("Products", "min")
    ELSE IF BindProducts(json.Products, 1) # NoErr THEN BindProducts(json.Products, 1)
    ELSE IF ~IsNil(json.Note) /\ Len(Deref(json.Note)) > 500 THEN BindingError("Note", "max")
    ELSE IF ~IsNil(json.Customer) /\ BindCustomerRequest(Deref(json.Customer)) # NoErr
         THEN BindCustomerRequest(Deref(json.Customer))
    ELSE IF ~IsNil(json.ShippingAddress) /\ Len(Deref(json.ShippingAddress)) > 500
         THEN BindingError("ShippingAddress", "max")
    ELSE IF ~IsNil(json.TableNumber) /\ Deref(json.TableNumber) < 1
         THEN BindingError("TableNumber", "gte")
    ELSE NoErr

ToCreateInput(r) ==
    [SaleType |-> r.SaleType, Products |-> r.Products, Note |-> r.Note,
     Customer |-> r.Customer, ShippingAddress |-> r.ShippingAddress,
     TableNumber |-> r.TableNumber,
     PaymentReceiptURL |-> r.PaymentReceiptURL, PaymentAccountID |-> r.PaymentAccountID]

\* ModifyOrderRequest: code required; products omitempty, dive;
\* shipping_address max=500; customer; note max=500.
BindModifyOrderRequest(json) ==
    IF json.Code = "" THEN BindingError("Code", "required")
    ELSE IF BindProducts(json.Products, 1) # NoErr THEN BindProducts(json.Products, 1)
    ELSE IF ~IsNil(json.ShippingAddress) /\ Len(Deref(json.ShippingAddress)) > 500
         THEN BindingError("ShippingAddress", "max")
    ELSE IF ~IsNil(json.Customer) /\ BindCustomerRequest(Deref(json.Customer)) # NoErr
         THEN BindCustomerRequest(Deref(json.Customer))
    ELSE IF ~IsNil(json.Note) /\ Len(Deref(json.Note)) > 500 THEN BindingError("Note", "max")
    ELSE NoErr

ToModifyInput(r) ==
    [Products |-> r.Products, ShippingAddress |-> r.ShippingAddress,
     Customer |-> r.Customer, Note |-> r.Note]

HandlerCreate(docs, body, id, code1, code2, t) ==
    LET notCalled == Result(NoErr, None, None, docs)
        b == ShouldBindJSON(body)
        bindErr == IF b.err # NoErr THEN b.err
                   ELSE BindCreateOrderRequest(Deref(b.json))
    IN  IF bindErr # NoErr THEN Response(StatusBadRequest, bindErr, FALSE, notCalled)
        ELSE LET r == SvcCreate(docs, ToCreateInput(Deref(b.json)), id, code1, code2, t)
             IN  IF r.err # NoErr
                 THEN Response(mapErrorToStatusCode(r.err), r.err, TRUE, r)
                 ELSE Response(HTTPStatusCreated, NoErr, TRUE, r)

HandlerModify(docs, body, t) ==
    LET notCalled == Result(NoErr, None, None, docs)
        b == ShouldBindJSON(body)
        bindErr == IF b.err # NoErr THEN b.err
                   ELSE BindModifyOrderRequest(Deref(b.json))
    IN  IF bindErr # NoErr THEN Response(StatusBadRequest, bindErr, FALSE, notCalled)
        ELSE LET req == Deref(b.json)
                 r == SvcModify(docs, req.Code, ToModifyInput(req), t)
             IN  IF r.err # NoErr
                 THEN Response(mapErrorToStatusCode(r.err), r.err, TRUE, r)
                 ELSE Response(StatusOK, NoErr, TRUE, r)

-----------------------------------------------------------------------------

(* The calls the model makes *)

Codes == {"ORD-1"}

custAna == [Identification |-> "1001", IDType |-> "CC", Name |-> "Ana", Phone |-> "3001234"]
custLuis == [Identification |-> "2002", IDType |-> "CE", Name |-> "Luis", Phone |-> "3109876"]
custNoName == [Identification |-> "1001", IDType |-> "CC", Name |-> "", Phone |-> "3001234"]
custNoPhone == [Identification |-> "1001", IDType |-> "CC", Name |-> "Ana", Phone |-> ""]

Item(id, price, quantity) ==
    [ID |-> id, Name |-> "item-" \o id, Price |-> price, Quantity |-> quantity]

oneItem == <<Item("p1", 1, 1)>>
twoItems == <<Item("p1", MaxPrice, MaxQuantity), Item("p2", 1, MaxQuantity)>>
duplicateItems == <<Item("p1", 1, 1), Item("p1", MaxPrice, 1)>>

CreateInput(saleType, products, customer, shippingAddress, tableNumber) ==
    [SaleType |-> saleType, Products |-> products, Note |-> None,
     Customer |-> customer, ShippingAddress |-> shippingAddress,
     TableNumber |-> tableNumber,
     PaymentReceiptURL |-> None, PaymentAccountID |-> None]

\* Two inputs Validate accepts, and one it rejects for each of: no products,
\* a delivery without customer, an on-site order with an address, a sale
\* type that is neither.
CreateInputs ==
    {CreateInput(SaleTypeDelivery, oneItem, Some(custAna), Some("Calle 1"), None),
     CreateInput(SaleTypeOnSite, oneItem, None, None, Some(1)),
     CreateInput(SaleTypeDelivery, <<>>, Some(custAna), Some("Calle 1"), None),
     CreateInput(SaleTypeDelivery, oneItem, None, Some("Calle 1"), None),
     CreateInput(SaleTypeOnSite, oneItem, None, Some("Calle 1"), Some(1)),
     CreateInput("PICKUP", oneItem, None, None, Some(1))}

PartialUpdateInputs ==
    [Status : {None} \cup {Some(s) : s \in Statuses \cup {"SHIPPED"}},
     Note : {None},
     PaymentReceiptURL : {None},
     PaymentAccountID : {None}]

ModifyInputs ==
    [Products : {<<>>, twoItems, duplicateItems},
     ShippingAddress : {None, Some("Carrera 7")},
     Customer : {None, Some(custLuis), Some(custNoName)},
     Note : {None, Some("note")}]

\* A call with the empty code returns before it reads its input.
CodeArgs == Codes \cup {""}
InputsFor(code, inputs) == IF code = "" THEN {CHOOSE i \in inputs : TRUE} ELSE inputs

\* uuid.New()
NewID(docs) == Cardinality(docs) + 1

Call(op, code, input, r) ==
    [op |-> op, code |-> code, input |-> input, err |-> r.err,
     order |-> r.order, mem |-> r.mem, before |-> orders]

Init ==
    /\ orders = {}
    /\ now = 0
    /\ last = [op |-> "none"]
    /\ calls = <<>>

Tick ==
    /\ now < MaxTime
    /\ now' = now + 1
    /\ UNCHANGED <<orders, last, calls>>

CreateCall(inputs, codes) ==
    \E input \in inputs, code1 \in codes, code2 \in codes :
        LET r == SvcCreate(orders, input, NewID(orders), code1, code2, now)
        IN  /\ orders' = r.docs
            /\ last' = Call("Create", code1, input, r)
            /\ UNCHANGED <<now, calls>>

PartialUpdateCall(inputs, codes) ==
    \E code \in codes :
        \E input \in InputsFor(code, inputs) :
            LET r == SvcPartialUpdate(orders, code, input, now)
            IN  /\ orders' = r.docs
                /\ last' = Call("PartialUpdate", code, input, r)
                /\ UNCHANGED <<now, calls>>

ModifyCall(inputs, codes) ==
    \E code \in codes :
        \E input \in InputsFor(code, inputs) :
            LET r == SvcModify(orders, code, input, now)
            IN  /\ orders' = r.docs
                /\ last' = Call("Modify", code, input, r)
                /\ UNCHANGED <<now, calls>>

Create == CreateCall(CreateInputs, Codes)
PartialUpdate == PartialUpdateCall(PartialUpdateInputs, CodeArgs)
Modify == ModifyCall(ModifyInputs, CodeArgs)

Next == Tick \/ Create \/ PartialUpdate \/ Modify

Spec == Init /\ [][Next]_vars

-----------------------------------------------------------------------------
(* Properties of the order lifecycle, checked under Spec *)

\* The ten pairs of the documented transition table.
TransitionTable ==
    {<<"CREATED", "VERIFIED">>, <<"CREATED", "IN_PROGRESS">>, <<"CREATED", "CANCELLED">>,
     <<"VERIFIED", "IN_PROGRESS">>, <<"VERIFIED", "CANCELLED">>,
     <<"IN_PROGRESS", "OUT_FOR_DELIVERY">>, <<"IN_PROGRESS", "DELIVERED">>,
     <<"IN_PROGRESS", "CANCELLED">>,
     <<"OUT_FOR_DELIVERY", "DELIVERED">>, <<"OUT_FOR_DELIVERY", "CANCELLED">>}

TerminalStatuses == {"DELIVERED", "CANCELLED"}

\* The stored order the last PartialUpdate / Modify call was about, as it was
\* when the call was made.
IsUpdateCall(c) == c.op \in {"PartialUpdate", "Modify"}
StoredBefore == {d \in last.before : d.Code = last.code}
StoredNow(code) == {d \in orders : d.Code = code}

\* The sum of unit price x quantity over the line items.
RECURSIVE LineItemSum(_)
LineItemSum(products) ==
    IF products = <<>> THEN 0
    ELSE Head(products).Price * Head(products).Quantity + LineItemSum(Tail(products))

\* C1: CanTransitionTo(t) on an order of status s is true exactly for the ten
\* pairs (s,t) of the transition table, false for every other pair (every
\* self-transition, every pair from DELIVERED or CANCELLED, every unrecognized
\* source or target); and a PartialUpdate that asks a stored order for a
\* recognized status succeeds exactly for those pairs.
C1_CanTransitionToIsTheTable ==
    /\ \A s \in StatusValues, t \in StatusValues :
         CanTransitionTo([Status |-> s], t) <=> (<<s, t>> \in TransitionTable)
    /\ (last.op = "PartialUpdate" /\ ~IsNil(last.input.Status)
            /\ Deref(last.input.Status) \in Statuses) =>
         \A d \in StoredBefore :
            (last.err = NoErr) <=> (<<d.Status, Deref(last.input.Status)>> \in TransitionTable)

C1_Witness ==
    /\ last.op = "PartialUpdate"
    /\ last.err = Err(ErrInvalidStatusTransition)
    /\ \E d \in StoredBefore :
         d.Status = StatusVerified /\ last.input.Status = Some(StatusVerified)

\* C2: once a stored order is DELIVERED or CANCELLED, no step changes its
\* status, and every PartialUpdate that carries a status and every Modify on
\* its code fails and leaves the collection as it was.
C2_TerminalStep ==
    \A d \in orders :
        d.Status \in TerminalStatuses =>
            /\ \E e \in orders' : e.ID = d.ID /\ e.Status = d.Status
            /\ (/\ IsUpdateCall(last')
                /\ last'.before = orders
                /\ last'.code = d.Code
                /\ (last'.op = "Modify" \/ ~IsNil(last'.input.Status)))
               => (last'.err # NoErr /\ orders' = orders)

C2_TerminalStatusIsFinal == [][C2_TerminalStep]_vars

C2_Witness ==
    /\ last.op = "PartialUpdate"
    /\ last.input.Status = Some(StatusInProgress)
    /\ last.err = Err(ErrInvalidStatusTransition)
    /\ \E d \in StoredBefore : d.Status = StatusDelivered
    /\ \E d \in orders : d.Status = StatusDelivered

\* C3: UpdateStatus(new) fails with InvalidStatus when new is not one of the
\* six statuses and with InvalidTransition when it is one but (current, new)
\* is not in the table; after either failure the order's status and
\* last-update timestamp are as before, and the PartialUpdate that hit it has
\* written nothing.
C3_UpdateStatusFailures ==
    (last.op = "PartialUpdate" /\ ~IsNil(last.input.Status)) =>
        \A d \in StoredBefore :
            LET new == Deref(last.input.Status)
            IN  /\ new \notin Statuses => last.err = Err(ErrInvalidStatus)
                /\ (new \in Statuses /\ <<d.Status, new>> \notin TransitionTable)
                      => last.err = Err(ErrInvalidStatusTransition)
                /\ last.err \in {Err(ErrInvalidStatus), Err(ErrInvalidStatusTransition)}
                      => /\ ~IsNil(last.mem)
                         /\ Deref(last.mem).Status = d.Status
                         /\ Deref(last.mem).UpdatedAt = d.UpdatedAt
                         /\ orders = last.before
                         /\ IsNil(last.order)

C3_Witness ==
    /\ last.op = "PartialUpdate"
    /\ last.input.Status = Some("SHIPPED")
    /\ last.err = Err(ErrInvalidStatus)
    /\ \E d \in StoredBefore : d.UpdatedAt < now /\ d \in orders

\* C4: every stored order's total is the sum of unit price x quantity over
\* its line items, so after Create and after every Modify that replaces the
\* line items; and no call's input carries a total.
C4_TotalIsLineItemSum ==
    /\ \A d \in orders : d.Total = LineItemSum(d.Products)
    /\ last.op \in {"Create", "PartialUpdate", "Modify"} =>
         /\ "Total" \notin DOMAIN last.input
         /\ \A i \in 1..Len(last.order) : last.order[i].Total = LineItemSum(last.order[i].Products)

C4_Witness ==
    /\ last.op = "Modify"
    /\ last.err = NoErr
    /\ last.input.Products = twoItems
    /\ \E d \in StoredBefore : d.Products = oneItem /\ d.Total = 1
    /\ \E d \in orders : d.Products = twoItems /\ d.Total = MaxPrice * MaxQuantity + MaxQuantity

\* The order a Modify input asks for: the stored order with the supplied
\* line items, address, customer and note.
Requested(d, input) ==
    [d EXCEPT !.Products = IF Len(input.Products) > 0 THEN input.Products ELSE @,
              !.ShippingAddress = IF ~IsNil(input.ShippingAddress) THEN input.ShippingAddress ELSE @,
              !.Customer = IF ~IsNil(input.Customer) THEN input.Customer ELSE @,
              !.Note = IF ~IsNil(input.Note) THEN input.Note ELSE @]

ModifyEndsVerified(priorStatuses) ==
    last.op = "Modify" =>
        \A d \in StoredBefore :
            (/\ d.Status \in priorStatuses
             /\ Len(last.input.Products) > 0
             /\ Validate(Requested(d, last.input)) = NoErr)
            => /\ last.err = NoErr
               /\ \A e \in StoredNow(last.code) : e.Status = StatusVerified
               /\ StoredNow(last.code) # {}
               /\ Deref(last.order).Status = StatusVerified

\* C5 as stated: from every status other than DELIVERED and CANCELLED, a
\* Modify with a non-empty product list that passes validation leaves the
\* order VERIFIED.
C5_Original == ModifyEndsVerified(Statuses \ TerminalStatuses)

\* C5, amended: from CREATED, VERIFIED or IN_PROGRESS, a Modify with a
\* non-empty product list that passes validation succeeds and leaves the
\* order VERIFIED; from OUT_FOR_DELIVERY it fails with OrderCannotBeModified
\* and the order stays OUT_FOR_DELIVERY.
C5_ModifyForcesVerified ==
    /\ ModifyEndsVerified({StatusCreated, StatusVerified, StatusInProgress})
    /\ last.op = "Modify" =>
         \A d \in StoredBefore :
            d.Status = StatusOutForDelivery =>
                /\ last.err = Err(ErrOrderCannotBeModified)
                /\ \A e \in StoredNow(last.code) : e.Status = StatusOutForDelivery

C5_Witness ==
    /\ last.op = "Modify"
    /\ last.err = NoErr
    /\ Len(last.input.Products) > 0
    /\ \E d \in StoredBefore : d.Status = StatusInProgress
    /\ \E d \in orders : d.Status = StatusVerified

\* C6: CanBeModified is false exactly for OUT_FOR_DELIVERY, DELIVERED and
\* CANCELLED; Modify on a stored order fails with OrderCannotBeModified
\* exactly when the order has one of these statuses, whatever the input, and
\* then the collection is as it was.
C6_ModifyGate ==
    /\ \A s \in StatusValues :
         CanBeModified([Status |-> s])
            <=> s \notin {"OUT_FOR_DELIVERY", "DELIVERED", "CANCELLED"}
    /\ last.op = "Modify" =>
         \A d \in StoredBefore :
            /\ (last.err = Err(ErrOrderCannotBeModified))
                  <=> d.Status \in {"OUT_FOR_DELIVERY", "DELIVERED", "CANCELLED"}
            /\ ErrorsIs(last.err, ErrOrderCannotBeModified)
                  => (orders = last.before /\ IsNil(last.order))

C6_Witness ==
    /\ last.op = "Modify"
    /\ last.err = Err(ErrOrderCannotBeModified)
    /\ last.input.Products = twoItems
    /\ last.input.Customer = Some(custLuis)
    /\ \E d \in StoredBefore : d.Status = StatusOutForDelivery /\ d \in orders

\* C7: every stored order keeps the sale-type rule: a DELIVERY order has a
\* customer with non-empty name and phone, a non-empty shipping address and
\* no table number; an ON_SITE order has a table number > 0 and no shipping
\* address.
C7_SaleTypeInvariant ==
    \A d \in orders :
        /\ d.SaleType = "DELIVERY" =>
             /\ ~IsNil(d.Customer)
             /\ Deref(d.Customer).Name # ""
             /\ Deref(d.Customer).Phone # ""
             /\ ~IsNil(d.ShippingAddress)
             /\ Deref(d.ShippingAddress) # ""
             /\ IsNil(d.TableNumber)
        /\ d.SaleType = "ON_SITE" =>
             /\ ~IsNil(d.TableNumber)
             /\ Deref(d.TableNumber) > 0
             /\ IsNil(d.ShippingAddress)

C7_Witness ==
    /\ last.op = "Modify"
    /\ last.err = NoErr
    /\ last.input.Customer = Some(custLuis)
    /\ last.input.ShippingAddress = Some("Carrera 7")
    /\ \E d \in orders :
         /\ d.SaleType = SaleTypeDelivery
         /\ d.Customer = Some(custLuis)
         /\ d.ShippingAddress = Some("Carrera 7")

-----------------------------------------------------------------------------
(* Order.Validate as a function: SpecValidate draws an order and applies it *)

ValidateItems ==
    [ID : {"", "p1", "p2"}, Name : {"", "item"},
     Price : {-1, MaxPrice}, Quantity : {0, MaxQuantity}]

ValidateProductLists ==
    {<<>>} \cup {<<a>> : a \in ValidateItems}
           \cup {<<a, b>> : a \in ValidateItems, b \in ValidateItems}

ValidateOrders ==
    [ID : {1}, Code : Codes, Status : {StatusCreated, "SHIPPED"},
     SaleType : {SaleTypeDelivery, SaleTypeOnSite, "PICKUP"},
     Products : ValidateProductLists, Total : {0}, Note : {None},
     Customer : {None, Some(custAna), Some(custNoName), Some(custNoPhone)},
     ShippingAddress : {None, Some(""), Some("Calle 1")},
     TableNumber : {None, Some(-1), Some(0), Some(1)},
     PaymentReceiptURL : {None}, PaymentAccountID : {None},
     CreatedAt : {0}, UpdatedAt : {0}]

InitValidate ==
    /\ orders = {}
    /\ now = 0
    /\ last \in {[op |-> "order", order |-> o] : o \in ValidateOrders}
    /\ calls = <<>>

ApplyValidate ==
    /\ last.op = "order"
    /\ last' = [op |-> "Validate", order |-> last.order, err |-> Validate(last.order)]
    /\ UNCHANGED <<orders, now, calls>>

NextValidate == ApplyValidate

SpecValidate == InitValidate /\ [][NextValidate]_vars

\* Line items Validate has nothing against: at least one, each with an id, a
\* name, quantity >= 1 and price >= 0, no id twice.
LineItemsValid(products) ==
    /\ Len(products) >= 1
    /\ \A i \in 1..Len(products) :
         /\ products[i].ID # ""
         /\ products[i].Name # ""
         /\ products[i].Quantity >= 1
         /\ products[i].Price >= 0
    /\ \A i, j \in 1..Len(products) : i # j => products[i].ID # products[j].ID

\* C8: for a DELIVERY order with valid line items and a recognized status,
\* Validate succeeds iff the customer is present with non-empty name and
\* phone, the shipping address is present and non-empty, and there is no
\* table number.
C8_ValidateDelivery ==
    (/\ last.op = "Validate"
     /\ last.order.SaleType = "DELIVERY"
     /\ LineItemsValid(last.order.Products)
     /\ last.order.Status \in Statuses)
    => ((last.err = NoErr) <=>
            /\ last.order.Customer # None
            /\ last.order.Customer[1].Name # ""
            /\ last.order.Customer[1].Phone # ""
            /\ last.order.ShippingAddress # None
            /\ last.order.ShippingAddress[1] # ""
            /\ last.order.TableNumber = None)

C8_Witness ==
    /\ last.op = "Validate"
    /\ last.order.SaleType = "DELIVERY"
    /\ Len(last.order.Products) = 2
    /\ LineItemsValid(last.order.Products)
    /\ last.order.Status \in Statuses
    /\ last.order.Customer = Some(custAna)
    /\ last.order.ShippingAddress = Some("Calle 1")
    /\ last.order.TableNumber = None
    /\ last.err = NoErr

\* C9: for an ON_SITE order with valid line items and a recognized status,
\* Validate succeeds iff the table number is present and > 0 and there is no
\* shipping address; with valid line items and any sale type other than
\* DELIVERY and ON_SITE it fails with the invalid-sale-type error.
C9_ValidateOnSite ==
    (/\ last.op = "Validate"
     /\ LineItemsValid(last.order.Products))
    => /\ (last.order.SaleType = "ON_SITE" /\ last.order.Status \in Statuses)
            => ((last.err = NoErr) <=>
                    /\ last.order.TableNumber # None
                    /\ last.order.TableNumber[1] > 0
                    /\ last.order.ShippingAddress = None)
       /\ last.order.SaleType \notin {"DELIVERY", "ON_SITE"}
            => last.err = Err(ErrInvalidSaleType)

C9_Witness ==
    /\ last.op = "Validate"
    /\ last.order.SaleType = "ON_SITE"
    /\ LineItemsValid(last.order.Products)
    /\ last.order.Status \in Statuses
    /\ last.order.TableNumber = Some(0)
    /\ last.order.ShippingAddress = None
    /\ last.err = Err(ErrInvalidTableNumber)

-----------------------------------------------------------------------------
(* The PATCH boundary: SpecHandler sends PATCH requests to stored orders *)

PatchBodies ==
    [Code : Codes \cup {""},
     Status : {None} \cup {Some(s) : s \in Statuses \cup {"SHIPPED"}},
     Note : {None, Some("note")},
     PaymentReceiptURL : {None},
     PaymentAccountID : {None},
     HasProducts : BOOLEAN]

HandlerCreateInputs ==
    {CreateInput(SaleTypeDelivery, oneItem, Some(custAna), Some("Calle 1"), None),
     CreateInput(SaleTypeOnSite, oneItem, None, None, Some(1))}

CreateForHandler == CreateCall(HandlerCreateInputs, Codes)

PatchCall(bodies) ==
    \E json \in bodies :
        LET r == HandlerPartialUpdate(orders, RequestBody(json), now)
        IN  /\ orders' = r.docs
            /\ last' = [op |-> "PATCH", code |-> json.Code, input |-> json,
                        status |-> r.status, err |-> r.err,
                        serviceCalled |-> r.serviceCalled,
                        order |-> r.order, mem |-> r.mem, before |-> orders]
            /\ UNCHANGED <<now, calls>>

PatchRequest == PatchCall(PatchBodies)

NextHandler == Tick \/ CreateForHandler \/ PatchRequest

SpecHandler == Init /\ [][NextHandler]_vars

\* C10: OrderHandler.PartialUpdate rejects every request whose payload has a
\* products field with 400, and with ProductsNotAllowedInPatch when the
\* payload is otherwise well-formed; it does so without calling the service's
\* PartialUpdate, and the collection is as it was.
C10_PatchRejectsProducts ==
    (last.op = "PATCH" /\ last.input.HasProducts) =>
        /\ last.status = 400
        /\ BindPartialUpdateOrderRequest(last.input) = NoErr
              => last.err = Err(ErrProductsNotAllowedInPatch)
        /\ ~last.serviceCalled
        /\ orders = last.before

-----------------------------------------------------------------------------
(* PartialUpdate and its four optional fields: SpecPartialUpdate *)

PartialUpdateFieldInputs ==
    [Status : {None, Some(StatusVerified), Some(StatusInProgress), Some(StatusCancelled)},
     Note : {None, Some(""), Some("call first")},
     PaymentReceiptURL : {None, Some("https://pay.example/r1")},
     PaymentAccountID : {None, Some("acc-1")}]

PartialUpdateFields == PartialUpdateCall(PartialUpdateFieldInputs, Codes)

NextPartialUpdate == Tick \/ CreateForHandler \/ PartialUpdateFields

SpecPartialUpdate == Init /\ [][NextPartialUpdate]_vars

\* e is d with, of status, note, payment receipt and payment account, those
\* present in the input replaced by the input's, and with some last-update
\* timestamp; every other field is d's.
PartialUpdateApplied(d, input, e) ==
    e = [d EXCEPT !.Status = IF input.Status # None THEN input.Status[1] ELSE @,
                  !.Note = IF input.Note # None THEN input.Note ELSE @,
                  !.PaymentReceiptURL =
                      IF input.PaymentReceiptURL # None THEN input.PaymentReceiptURL ELSE @,
                  !.PaymentAccountID =
                      IF input.PaymentAccountID # None THEN input.PaymentAccountID ELSE @,
                  !.UpdatedAt = e.UpdatedAt]

\* C11: a successful PartialUpdate replaces the stored order by one that
\* differs from it only in status, note, payment receipt and payment account,
\* each only when present in the input, and in the last-update timestamp; line
\* items, total, sale type, customer, shipping address, table number,
\* identifier, tracking code and creation timestamp are as they were.
C11_PartialUpdateFrame ==
    (last.op = "PartialUpdate" /\ last.err = NoErr) =>
        \A d \in StoredBefore :
            \E e \in orders :
                /\ PartialUpdateApplied(d, last.input, e)
                /\ orders = (last.before \ {d}) \cup {e}

C11_Witness ==
    /\ last.op = "PartialUpdate"
    /\ last.err = NoErr
    /\ last.input.Status = None
    /\ last.input.Note = None
    /\ last.input.PaymentReceiptURL = Some("https://pay.example/r1")
    /\ last.input.PaymentAccountID = None
    /\ \E d \in StoredBefore :
         /\ d.Status = StatusInProgress
         /\ d.Note = Some("call first")
         /\ d.PaymentReceiptURL = None
         /\ d.PaymentAccountID = Some("acc-1")
         /\ d.UpdatedAt < now
         /\ \E e \in orders :
              /\ e.ID = d.ID
              /\ e.Status = StatusInProgress
              /\ e.Note = Some("call first")
              /\ e.PaymentReceiptURL = Some("https://pay.example/r1")
              /\ e.PaymentAccountID = Some("acc-1")
              /\ e.Customer = d.Customer
              /\ e.UpdatedAt = now

-----------------------------------------------------------------------------
(* Create over a collection of several orders: SpecCreate *)

TwoCodes == {"ORD-1", "ORD-2"}

\* The delivery order of the documented scenario: 10000 x 2 and 19900 x 1.
scenarioItems == <<Item("p1", 10000, 2), Item("p2", 19900, 1)>>

SeveralCreateInputs ==
    {CreateInput(SaleTypeDelivery, scenarioItems, Some(custAna), Some("Calle 1"), None),
     CreateInput(SaleTypeOnSite, oneItem, None, None, Some(1)),
     CreateInput(SaleTypeOnSite, twoItems, None, None, Some(0)),
     CreateInput(SaleTypeDelivery, <<>>, Some(custAna), Some("Calle 1"), None)}

CreateSeveral == CreateCall(SeveralCreateInputs, TwoCodes)

NextCreate == Tick \/ CreateSeveral

SpecCreate == Init /\ [][NextCreate]_vars

\* C12: a successful Create adds exactly one order to the collection, new in
\* identifier and tracking code, with status CREATED, the supplied line items
\* and their sum of price x quantity as total (39900 for 10000 x 2 and
\* 19900 x 1); every order stored before is still there, unchanged.
C12_CreateAddsOneOrder ==
    (last.op = "Create" /\ last.err = NoErr) =>
        \E e \in orders :
            /\ e \notin last.before
            /\ orders = last.before \cup {e}
            /\ \A d \in last.before : d.ID # e.ID /\ d.Code # e.Code
            /\ e.Status = "CREATED"
            /\ e.Products = last.input.Products
            /\ e.Total = LineItemSum(last.input.Products)
            /\ last.input.Products = scenarioItems => e.Total = 39900
            /\ last.order = Some(e)

C12_Witness ==
    /\ last.op = "Create"
    /\ last.err = NoErr
    /\ last.input.Products = scenarioItems
    /\ last.before # {}
    /\ \E e \in orders \ last.before :
         e.Total = 39900 /\ e.Status = StatusCreated /\ e.SaleType = SaleTypeDelivery

-----------------------------------------------------------------------------
(* Concurrent Create calls: SpecConcurrent.  Each request runs Service.Create *)
(* in its own goroutine; the repository calls ExistsByCode and Create are the *)
(* steps at which the goroutines interleave.  A call in flight carries its    *)
(* order and the number of existence checks, code regenerations and insert    *)
(* attempts it has made.                                                      *)

Goroutines == {1, 2}

ConcurrentCreateInputs ==
    {CreateInput(SaleTypeDelivery, twoItems, Some(custAna), Some("Calle 1"), None),
     CreateInput(SaleTypeOnSite, oneItem, None, None, Some(1)),
     CreateInput(SaleTypeOnSite, oneItem, None, Some("Calle 1"), Some(1))}

\* uuid.New(): an identifier no stored order and no call in flight has.
FreshID(docs, inflight) ==
    LET used == {d.ID : d \in docs} \cup {inflight[p].o.ID : p \in DOMAIN inflight}
    IN  CHOOSE n \in 1..(Cardinality(used) + 1) : n \notin used

Returned(p, c, err, before) ==
    [op |-> "Create", goroutine |-> p, code |-> c.o.Code, input |-> c.input, err |-> err,
     order |-> IF err = NoErr THEN Some(c.o) ELSE None, before |-> before,
     checks |-> c.checks, regenerations |-> c.regenerations, inserts |-> c.inserts]

\* NewOrder, the optional fields, Validate: nothing shared is read or written.
BeginCreate(p) ==
    /\ p \notin DOMAIN calls
    /\ \E input \in ConcurrentCreateInputs, code1 \in TwoCodes :
         LET o == [NewOrder(input.SaleType, input.Products,
                            FreshID(orders, calls), code1, now)
                      EXCEPT !.Note = input.Note,
                             !.Customer = input.Customer,
                             !.ShippingAddress = input.ShippingAddress,
                             !.TableNumber = input.TableNumber,
                             !.PaymentReceiptURL = input.PaymentReceiptURL,
                             !.PaymentAccountID = input.PaymentAccountID]
             c == [pc |-> "exists", input |-> input, o |-> o,
                   checks |-> 0, regenerations |-> 0, inserts |-> 0]
             verr == Validate(o)
         IN  IF verr # NoErr
             THEN /\ last' = Returned(p, c, Wrap("validation error", verr), orders)
                  /\ UNCHANGED calls
             ELSE /\ calls' = (p :> c) @@ calls
                  /\ UNCHANGED last
    /\ UNCHANGED <<orders, now>>

\* Mutant: a collision sends the call back to the existence check.
ExistsStepRetries(p) ==
    /\ p \in DOMAIN calls
    /\ calls[p].pc = "exists"
    /\ \E code2 \in TwoCodes :
         LET c == calls[p]
             exists == ExistsByCode(orders, c.o.Code)
         IN  calls' = [calls EXCEPT ![p] =
                [c EXCEPT !.checks = @ + 1,
                          !.regenerations = IF exists THEN @ + 1 ELSE @,
                          !.o.Code = IF exists THEN code2 ELSE @,
                          !.pc = IF exists /\ c.checks < 2 THEN "exists" ELSE "insert"]]
    /\ UNCHANGED <<orders, now, last>>

\* s.repo.ExistsByCode, and generateOrderCode() when the code exists.
ExistsStep(p) ==
    /\ p \in DOMAIN calls
    /\ calls[p].pc = "exists"
    /\ \E code2 \in TwoCodes :
         LET c == calls[p]
             exists == ExistsByCode(orders, c.o.Code)
         IN  calls' = [calls EXCEPT ![p] =
                [c EXCEPT !.checks = @ + 1,
                          !.regenerations = IF exists THEN @ + 1 ELSE @,
                          !.o.Code = IF exists THEN code2 ELSE @,
                          !.pc = "insert"]]
    /\ UNCHANGED <<orders, now, last>>

\* s.repo.Create, and the return.
InsertStep(p) ==
    /\ p \in DOMAIN calls
    /\ calls[p].pc = "insert"
    /\ LET c == [calls[p] EXCEPT !.inserts = @ + 1]
           r == RepoCreate(orders, c.o)
       IN  /\ orders' = r.docs
           /\ last' = Returned(p, c, IF r.err # NoErr
                                     THEN Wrap("failed to create order", r.err)
                                     ELSE NoErr, orders)
           /\ calls' = [q \in DOMAIN calls \ {p} |-> calls[q]]
    /\ UNCHANGED now

NextConcurrent ==
    \/ \E p \in Goroutines : BeginCreate(p)
    \/ \E p \in Goroutines : ExistsStep(p)
    \/ \E p \in Goroutines : InsertStep(p)

SpecConcurrent == Init /\ [][NextConcurrent]_vars

\* C13: no two stored orders have the same tracking code, however the Create
\* calls interleave; an insert whose code is already stored fails with
\* OrderCodeAlreadyExists, and a failed Create stores nothing.
C13_TrackingCodesUnique ==
    /\ \A d \in orders, e \in orders : d.Code = e.Code => d = e
    /\ (last.op = "Create" /\ last.inserts = 1) =>
         ((\E d \in last.before : d.Code = last.code)
             <=> last.err = Wrap("failed to create order", Err(ErrOrderCodeAlreadyExists)))
    /\ (last.op = "Create" /\ last.err # NoErr) => orders = last.before

\* Two calls passed the existence check with the same code before either
\* inserted; the second insert lost.
C13_Witness ==
    /\ last.op = "Create"
    /\ last.regenerations = 0
    /\ last.inserts = 1
    /\ ErrorsIs(last.err, ErrOrderCodeAlreadyExists)
    /\ Cardinality({d \in orders : d.Code = last.code}) = 1
    /\ orders = last.before

\* C14: a Create call makes at most one existence check, regenerates the code
\* only after a check that found it and so at most once, and makes at most
\* one insert attempt; a call that returns after passing validation has made
\* exactly one check and exactly one insert; when the regenerated code is
\* stored too, the call returns OrderCodeAlreadyExists and stores nothing.
C14_CreateCollisionBounded ==
    /\ \A p \in DOMAIN calls :
         /\ calls[p].checks = (IF calls[p].pc = "exists" THEN 0 ELSE 1)
         /\ calls[p].regenerations <= calls[p].checks
         /\ calls[p].inserts = 0
    /\ last.op = "Create" =>
         /\ ErrorsIs(last.err, "validation error") => (last.checks = 0 /\ last.inserts = 0)
         /\ ~ErrorsIs(last.err, "validation error") =>
              /\ last.checks = 1
              /\ last.regenerations <= 1
              /\ last.inserts = 1
         /\ (last.regenerations = 1 /\ \E d \in last.before : d.Code = last.code) =>
              /\ ErrorsIs(last.err, ErrOrderCodeAlreadyExists)
              /\ orders = last.before

C14_Witness ==
    /\ last.op = "Create"
    /\ last.checks = 1
    /\ last.regenerations = 1
    /\ last.inserts = 1
    /\ \E d \in last.before : d.Code = last.code
    /\ last.err = Wrap("failed to create order", Err(ErrOrderCodeAlreadyExists))
    /\ orders = last.before

-----------------------------------------------------------------------------
(* Create and Modify with line items and fields Validate rejects:           *)
(* SpecValidated                                                            *)

zeroQuantityItems == <<Item("p1", 1, 1), Item("p2", 1, 0)>>
negativePriceItems == <<Item("p1", -1, 1)>>
noIDItems == <<Item("", 1, 1)>>
noNameItems == <<[ID |-> "p1", Name |-> "", Price |-> 1, Quantity |-> 1]>>

LineItemLists ==
    {<<>>, oneItem, twoItems, duplicateItems,
     zeroQuantityItems, negativePriceItems, noIDItems, noNameItems}

ValidatedCreateInputs ==
    {CreateInput(SaleTypeOnSite, products, None, None, Some(1)) : products \in LineItemLists}
    \cup {CreateInput(SaleTypeDelivery, oneItem, Some(custAna), Some("Calle 1"), None),
          CreateInput(SaleTypeDelivery, oneItem, Some(custNoPhone), Some("Calle 1"), None),
          CreateInput(SaleTypeOnSite, oneItem, None, Some("Calle 1"), Some(1))}

ValidatedModifyInputs ==
    [Products : LineItemLists,
     ShippingAddress : {None, Some("Carrera 7")},
     Customer : {None, Some(custNoName)},
     Note : {None, Some("note")}]

CreateValidated == CreateCall(ValidatedCreateInputs, Codes)
PartialUpdateValidated == PartialUpdateCall(PartialUpdateInputs, Codes)
ModifyValidated == ModifyCall(ValidatedModifyInputs, Codes)

NextValidated == Tick \/ CreateValidated \/ PartialUpdateValidated \/ ModifyValidated

SpecValidated == Init /\ [][NextValidated]_vars

\* An order that meets every rule of the specification: valid line items, the
\* rule of its sale type, a recognized status.
MeetsSaleTypeRule(o) ==
    \/ /\ o.SaleType = "DELIVERY"
       /\ o.Customer # None
       /\ o.Customer[1].Name # ""
       /\ o.Customer[1].Phone # ""
       /\ o.ShippingAddress # None
       /\ o.ShippingAddress[1] # ""
       /\ o.TableNumber = None
    \/ /\ o.SaleType = "ON_SITE"
       /\ o.TableNumber # None
       /\ o.TableNumber[1] > 0
       /\ o.ShippingAddress = None

OrderIsValid(o) ==
    /\ LineItemsValid(o.Products)
    /\ MeetsSaleTypeRule(o)
    /\ o.Status \in Statuses

\* The order a Create input asks for.
RequestedNew(input) ==
    [SaleType |-> input.SaleType, Products |-> input.Products, Status |-> "CREATED",
     Customer |-> input.Customer, ShippingAddress |-> input.ShippingAddress,
     TableNumber |-> input.TableNumber]

IsValidationError(err) == Len(err) = 2 /\ err[1] = "validation error"

\* C15: when the order a Create asks for, or the order a Modify asks of a
\* modifiable stored order, breaks a validation rule, the call returns a
\* validation error and no order, and the collection is as it was before the
\* call: Create has stored nothing, Modify has changed nothing of the stored
\* order.  Conversely a call that returned a validation error wrote nothing.
C15_ValidationFailureWritesNothing ==
    /\ (last.op = "Create" /\ ~OrderIsValid(RequestedNew(last.input))) =>
          /\ IsValidationError(last.err)
          /\ IsNil(last.order)
          /\ orders = last.before
    /\ last.op = "Modify" =>
          \A d \in StoredBefore :
              (d.Status \in {"CREATED", "VERIFIED", "IN_PROGRESS"}
                  /\ ~OrderIsValid(Requested(d, last.input))) =>
                      /\ IsValidationError(last.err)
                      /\ IsNil(last.order)
                      /\ orders = last.before
                      /\ d \in orders
    /\ (last.op \in {"Create", "Modify"} /\ ErrorsIs(last.err, "validation error")) =>
          orders = last.before

\* A Modify that asked for new line items, a new note and an address the
\* on-site order may not have: the in-memory order took them, the stored one
\* did not.
C15_Witness ==
    /\ last.op = "Modify"
    /\ last.input.Products = twoItems
    /\ last.input.Note = Some("note")
    /\ last.input.ShippingAddress = Some("Carrera 7")
    /\ last.err = Wrap("validation error", Err(ErrShippingAddressNotAllowedForOnSite))
    /\ \E d \in StoredBefore :
         /\ d.SaleType = SaleTypeOnSite
         /\ d.Status = StatusInProgress
         /\ d.Products = oneItem
         /\ d.Note = None
         /\ d \in orders
    /\ Deref(last.mem).Products = twoItems
    /\ Deref(last.mem).Status = StatusVerified

\* C17: every stored order has at least one line item, no line-item
\* identifier twice, every quantity >= 1 and every price >= 0, and one of the
\* six statuses.
C17_StoredOrdersWellFormed ==
    \A d \in orders :
        /\ Len(d.Products) >= 1
        /\ \A i \in 1..Len(d.Products), j \in 1..Len(d.Products) :
             i # j => d.Products[i].ID # d.Products[j].ID
        /\ \A i \in 1..Len(d.Products) :
             d.Products[i].Quantity >= 1 /\ d.Products[i].Price >= 0
        /\ d.Status \in {"CREATED", "VERIFIED", "IN_PROGRESS",
                         "OUT_FOR_DELIVERY", "DELIVERED", "CANCELLED"}

\* A Modify that asked for a line item of quantity 0 left the stored order
\* with the line items it had.
C17_Witness ==
    /\ last.op = "Modify"
    /\ last.input.Products = zeroQuantityItems
    /\ last.err = Wrap("validation error", Err(ErrInvalidProductQuantity))
    /\ \E d \in orders :
         d.Code = last.code /\ d.Products = twoItems /\ d.Status = StatusVerified

-----------------------------------------------------------------------------
(* The documented order of Validate's checks, under SpecValidate *)

\* The error of the first failing field check of one line item.
LineItemFieldError(p) ==
    IF p.ID = "" THEN Err(ErrInvalidProductID)
    ELSE IF p.Name = "" THEN Err(ErrInvalidProductName)
    ELSE IF p.Quantity < 1 THEN Err(ErrInvalidProductQuantity)
    ELSE IF p.Price < 0 THEN Err(ErrInvalidProductPrice)
    ELSE NoErr

\* The error of the first failing check of the sale-type block.
SaleTypeBlockError(o) ==
    IF o.SaleType = "DELIVERY" THEN
        IF o.Customer = None THEN Err(ErrCustomerRequiredForDelivery)
        ELSE IF o.Customer[1].Name = "" THEN Err(ErrCustomerNameRequired)
        ELSE IF o.Customer[1].Phone = "" THEN Err(ErrCustomerPhoneRequired)
        ELSE IF o.ShippingAddress = None \/ o.ShippingAddress = Some("")
             THEN Err(ErrShippingAddressRequired)
        ELSE IF o.TableNumber # None THEN Err(ErrTableNumberNotAllowedForDelivery)
        ELSE NoErr
    ELSE IF o.SaleType = "ON_SITE" THEN
        IF o.TableNumber = None THEN Err(ErrTableNumberRequiredForOnSite)
        ELSE IF o.TableNumber[1] <= 0 THEN Err(ErrInvalidTableNumber)
        ELSE IF o.ShippingAddress # None THEN Err(ErrShippingAddressNotAllowedForOnSite)
        ELSE NoErr
    ELSE Err(ErrInvalidSaleType)

\* The error of the first failing check in the documented order: (1) line
\* items non-empty, (2) the fields of every line item, (3) no duplicate
\* identifier, (4) the sale-type block, (5) the status.
DocumentedValidateError(o) ==
    LET n == Len(o.Products)
        bad == {i \in 1..n : LineItemFieldError(o.Products[i]) # NoErr}
    IN  IF n = 0 THEN Err(ErrNoProducts)
        ELSE IF bad # {}
             THEN LineItemFieldError(o.Products[CHOOSE i \in bad : \A k \in bad : i <= k])
        ELSE IF \E i \in 1..n, j \in 1..n : i # j /\ o.Products[i].ID = o.Products[j].ID
             THEN Err(ErrDuplicateProduct)
        ELSE IF SaleTypeBlockError(o) # NoErr THEN SaleTypeBlockError(o)
        ELSE IF o.Status \notin Statuses THEN Err(ErrInvalidStatus)
        ELSE NoErr

\* C16: Validate returns the error of the first failing check in the
\* documented order; when a line item has an invalid field and the list also
\* has a duplicate identifier, it returns the line-item field error.
C16_ValidateDocumentedOrder ==
    last.op = "Validate" => last.err = DocumentedValidateError(last.order)

-----------------------------------------------------------------------------
(* The boundary: POST, PATCH and PUT requests, SpecBoundary *)

PostBody(saleType, products, customer, shippingAddress, tableNumber) ==
    [SaleType |-> saleType, Products |-> products, Note |-> None,
     Customer |-> customer, ShippingAddress |-> shippingAddress,
     TableNumber |-> tableNumber,
     PaymentReceiptURL |-> None, PaymentAccountID |-> None]

\* Two orders Validate accepts; one request for each validation condition a
\* request that passes binding can meet; four requests binding rejects.
PostBodies ==
    {PostBody("DELIVERY", oneItem, Some(custAna), Some("Calle 1"), None),
     PostBody("ON_SITE", oneItem, None, None, Some(1)),
     PostBody("ON_SITE", duplicateItems, None, None, Some(1)),
     PostBody("DELIVERY", oneItem, None, Some("Calle 1"), None),
     PostBody("DELIVERY", oneItem, Some(custAna), None, None),
     PostBody("DELIVERY", oneItem, Some(custAna), Some(""), None),
     PostBody("DELIVERY", oneItem, Some(custAna), Some("Calle 1"), Some(1)),
     PostBody("ON_SITE", oneItem, None, None, None),
     PostBody("ON_SITE", oneItem, None, Some("Calle 1"), Some(1)),
     PostBody("ON_SITE", oneItem, None, None, Some(0)),
     PostBody("ON_SITE", zeroQuantityItems, None, None, Some(1)),
     PostBody("DELIVERY", oneItem, Some(custNoName), Some("Calle 1"), None),
     PostBody("PICKUP", oneItem, None, None, Some(1))}

PutBodies ==
    [Code : Codes,
     Products : {<<>>, twoItems, duplicateItems, negativePriceItems},
     ShippingAddress : {None, Some("Carrera 7")},
     Customer : {None, Some(custLuis)},
     Note : {None}]
    \cup {[Code |-> "", Products |-> twoItems, ShippingAddress |-> None,
           Customer |-> None, Note |-> None]}

PatchStatusBodies ==
    [Code : Codes,
     Status : {None} \cup {Some(s) : s \in Statuses \cup {"SHIPPED"}},
     Note : {None},
     PaymentReceiptURL : {None},
     PaymentAccountID : {None},
     HasProducts : {FALSE}]

Answer(op, code, json, r) ==
    [op |-> op, code |-> code, input |-> json,
     status |-> r.status, err |-> r.err, serviceCalled |-> r.serviceCalled,
     order |-> r.order, mem |-> r.mem, before |-> orders]

PostRequest ==
    \E json \in PostBodies, code1 \in Codes, code2 \in Codes :
        LET r == HandlerCreate(orders, RequestBody(json), NewID(orders), code1, code2, now)
        IN  /\ orders' = r.docs
            /\ last' = Answer("POST", code1, json, r)
            /\ UNCHANGED <<now, calls>>

PutRequest ==
    \E json \in PutBodies :
        LET r == HandlerModify(orders, RequestBody(json), now)
        IN  /\ orders' = r.docs
            /\ last' = Answer("PUT", json.Code, json, r)
            /\ UNCHANGED <<now, calls>>

PatchStatusRequest == PatchCall(PatchStatusBodies)

NextBoundary == Tick \/ PostRequest \/ PatchStatusRequest \/ PutRequest

SpecBoundary == Init /\ [][NextBoundary]_vars

\* The validation conditions Validate names.
ValidationConditions ==
    {ErrNoProducts, ErrInvalidProductID, ErrInvalidProductName,
     ErrInvalidProductQuantity, ErrInvalidProductPrice, ErrDuplicateProduct,
     ErrCustomerRequiredForDelivery, ErrCustomerNameRequired, ErrCustomerPhoneRequired,
     ErrShippingAddressRequired, ErrShippingAddressNotAllowedForOnSite,
     ErrTableNumberRequiredForOnSite, ErrTableNumberNotAllowedForDelivery,
     ErrInvalidTableNumber, ErrInvalidSaleType, ErrInvalidStatus}

\* C18: when Create or Modify returns one of Validate's named conditions, the
\* boundary answers 422, never 500.
C18_ValidationErrorsAnswer422 ==
    (/\ last.op \in {"POST", "PUT"}
     /\ last.serviceCalled
     /\ \E e \in ValidationConditions : ErrorsIs(last.err, e))
    => last.status = 422

\* C19: the boundary answers 409 to an invalid status transition, to a Modify
\* of an order in an immutable status and to a duplicate tracking code, and
\* 404 to an absent order, also when the error comes wrapped with the
\* operation's context.
C19_ConflictAndNotFound ==
    /\ \A ctx \in {<<>>, <<"failed to create order">>, <<"failed to update order">>} :
         /\ \A e \in {ErrInvalidStatusTransition, ErrOrderCannotBeModified,
                      ErrOrderCodeAlreadyExists} :
              mapErrorToStatusCode(ctx \o Err(e)) = 409
         /\ mapErrorToStatusCode(ctx \o Err(ErrOrderNotFound)) = 404
    /\ (last.op \in {"POST", "PATCH", "PUT"} /\ last.serviceCalled) =>
         /\ (last.op = "PATCH" /\ last.input.Status # None) =>
              \A d \in StoredBefore :
                 <<d.Status, last.input.Status[1]>> \notin TransitionTable
                    => last.status = 409
         /\ last.op = "PUT" =>
              \A d \in StoredBefore :
                 d.Status \in {"OUT_FOR_DELIVERY", "DELIVERED", "CANCELLED"}
                    => last.status = 409
         /\ (last.op = "POST" /\ OrderIsValid(RequestedNew(last.input))
                 /\ \A c \in Codes : \E d \in last.before : d.Code = c)
              => last.status = 409
         /\ (last.op \in {"PATCH", "PUT"} /\ StoredBefore = {}) => last.status = 404
         /\ last.status \in {404, 409} => orders = last.before

\* A POST whose first and regenerated code are both stored: the service
\* returns the wrapped OrderCodeAlreadyExists, the boundary answers 409.
C19_Witness ==
    /\ last.op = "POST"
    /\ last.serviceCalled
    /\ last.err = Wrap("failed to create order", Err(ErrOrderCodeAlreadyExists))
    /\ last.status = 409
    /\ orders = last.before

-----------------------------------------------------------------------------
(* Metrics: orderMongoRepository.GetMetrics behind Service.GetMetrics,       *)
(* SpecMetrics.  The filters sent have no date and no product-name filter.   *)

OrderFilters(status, saleType, productID, minTotal, maxTotal) ==
    [Status |-> status, SaleType |-> saleType, ProductID |-> productID,
     MinTotal |-> minTotal, MaxTotal |-> maxTotal]

\* applyFilters: the $match document.
MatchesFilters(d, filters) ==
    /\ ~IsNil(filters.Status) => d.Status = Deref(filters.Status)
    /\ ~IsNil(filters.SaleType) => d.SaleType = Deref(filters.SaleType)
    /\ ~IsNil(filters.ProductID) =>
          \E i \in 1..Len(d.Products) : d.Products[i].ID = Deref(filters.ProductID)
    /\ ~IsNil(filters.MinTotal) => d.Total >= Deref(filters.MinTotal)
    /\ ~IsNil(filters.MaxTotal) => d.Total <= Deref(filters.MaxTotal)

RECURSIVE SumTotal(_)
SumTotal(docs) ==
    IF docs = {} THEN 0
    ELSE LET d == CHOOSE x \in docs : TRUE IN d.Total + SumTotal(docs \ {d})

\* The by_status facet: one group for each status some matched order has.
ByStatus(matched) ==
    [s \in {d.Status : d \in matched} |-> Cardinality({d \in matched : d.Status = s})]

\* The $unwind and $group stages of the top_products facet: one summary for
\* each (id, name) of a line item of a matched order.
TopProductGroups(matched) ==
    LET lines == UNION {{<<d.ID, i>> : i \in 1..Len(d.Products)} : d \in matched}
        item(l) == (CHOOSE d \in matched : d.ID = l[1]).Products[l[2]]
        keys == {<<item(l).ID, item(l).Name>> : l \in lines}
        RECURSIVE Sum(_, _, _)
        Sum(ls, k, f) ==
            IF ls = {} THEN 0
            ELSE LET l == CHOOSE x \in ls : TRUE
                 IN  (IF <<item(l).ID, item(l).Name>> = k
                      THEN (IF f = "quantity" THEN item(l).Quantity
                            ELSE item(l).Price * item(l).Quantity)
                      ELSE 0) + Sum(ls \ {l}, k, f)
    IN  {[ProductID |-> k[1], Name |-> k[2],
          TotalQuantity |-> Sum(lines, k, "quantity"),
          TotalRevenue |-> Sum(lines, k, "revenue")] : k \in keys}

\* The product identifiers and display names the requests use, in a fixed
\* order: the order in which the server may emit groups of equal quantity.
ProductKeys ==
    <<"p1", "p2", "p3", "p4", "p5", "p6", "p7", "p8", "p9", "p10", "p11",
      "item-p1", "item-p2", "item-p3", "item-p4", "item-p5", "item-p6",
      "item-p7", "item-p8", "item-p9", "item-p10", "item-p11", "renamed">>

KeyIndex(k) == CHOOSE i \in 1..Len(ProductKeys) : ProductKeys[i] = k

\* The order of two groups of equal total quantity is the server's choice;
\* ties stands for it.
TieOrders == {"ascending", "descending"}

Precedes(g, h, ties) ==
    LET a == <<KeyIndex(g.ProductID), KeyIndex(g.Name)>>
        b == <<KeyIndex(h.ProductID), KeyIndex(h.Name)>>
        less == a[1] < b[1] \/ (a[1] = b[1] /\ a[2] <= b[2])
    IN  IF ties = "ascending" THEN less ELSE (g = h \/ ~less)

\* {"$sort": {"total_quantity": -1}}
RECURSIVE SortByTotalQuantity(_, _)
SortByTotalQuantity(groups, ties) ==
    IF groups = {} THEN <<>>
    ELSE LET top == {g \in groups :
                        \A h \in groups : h.TotalQuantity <= g.TotalQuantity}
             first == CHOOSE g \in top : \A h \in top : Precedes(g, h, ties)
         IN  <<first>> \o SortByTotalQuantity(groups \ {first}, ties)

\* {"$limit": 10}
TopProductsLimit == 10

\* The top_products facet.
TopProducts(matched, ties) ==
    LET sorted == SortByTotalQuantity(TopProductGroups(matched), ties)
    IN  SubSeq(sorted, 1, IF Len(sorted) < TopProductsLimit
                          THEN Len(sorted) ELSE TopProductsLimit)

\* RepoGetMetrics with a metrics facet that yields a group with a null
\* average for no order, which the decoder refuses.
RepoGetMetricsFailsOnEmpty(docs, filters, truncate, ties) ==
    LET matched == {d \in docs : MatchesFilters(d, filters)}
        count == Cardinality(matched)
    IN  IF count = 0 \/ (SumTotal(matched) % count # 0 /\ ~truncate)
        THEN [err |-> Wrap("failed to decode metrics", Err("cannot decode null")),
              metrics |-> None]
        ELSE [err |-> NoErr,
              metrics |-> Some(
                  [TotalSales |-> SumTotal(matched),
                   AvgTicket |-> SumTotal(matched) \div count,
                   OrdersByStatus |-> ByStatus(matched),
                   TopProducts |-> TopProducts(matched, ties)])]

\* truncate: whether the decoder of the int64 field avg_ticket truncates the
\* double that $avg yields, or refuses one with a fraction.
\* ties: the order the server gives groups of equal total quantity.
RepoGetMetrics(docs, filters, truncate, ties) ==
    LET matched == {d \in docs : MatchesFilters(d, filters)}
        count == Cardinality(matched)
    IN  IF count > 0 /\ SumTotal(matched) % count # 0 /\ ~truncate
        THEN [err |-> Wrap("failed to decode metrics", Err("cannot truncate")),
              metrics |-> None]
        ELSE [err |-> NoErr,
              metrics |-> Some(
                  [TotalSales |-> SumTotal(matched),
                   AvgTicket |-> IF count > 0 THEN SumTotal(matched) \div count ELSE 0,
                   OrdersByStatus |-> ByStatus(matched),
                   TopProducts |-> TopProducts(matched, ties)])]

SvcGetMetrics(docs, filters, truncate, ties) ==
    LET r == RepoGetMetrics(docs, filters, truncate, ties)
    IN  IF r.err # NoErr
        THEN [err |-> Wrap("failed to get metrics", r.err), metrics |-> None]
        ELSE r

MetricsFilters ==
    {OrderFilters(status, saleType, productID, minTotal, None) :
        status \in {None, Some(StatusCreated), Some(StatusDelivered)},
        saleType \in {None, Some(SaleTypeOnSite)},
        productID \in {None, Some("p2")},
        minTotal \in {None, Some(2)}}
    \cup {OrderFilters(None, None, None, None, Some(1))}

MetricsCreateInputs ==
    {CreateInput(SaleTypeDelivery, twoItems, Some(custAna), Some("Calle 1"), None),
     CreateInput(SaleTypeOnSite, oneItem, None, None, Some(1))}

MetricsPartialUpdateInputs ==
    [Status : {Some(StatusVerified), Some(StatusInProgress), Some(StatusDelivered)},
     Note : {None}, PaymentReceiptURL : {None}, PaymentAccountID : {None}]

CreateForMetrics == CreateCall(MetricsCreateInputs, TwoCodes)
PartialUpdateForMetrics == PartialUpdateCall(MetricsPartialUpdateInputs, TwoCodes)

GetMetricsCall(filterSet) ==
    \E filters \in filterSet, truncate \in BOOLEAN, ties \in TieOrders :
        LET r == SvcGetMetrics(orders, filters, truncate, ties)
        IN  /\ last' = [op |-> "GetMetrics", input |-> filters, err |-> r.err,
                        metrics |-> r.metrics, before |-> orders]
            /\ UNCHANGED <<orders, now, calls>>

GetMetrics == GetMetricsCall(MetricsFilters)

NextMetrics == Tick \/ CreateForMetrics \/ PartialUpdateForMetrics \/ GetMetrics

SpecMetrics == Init /\ [][NextMetrics]_vars

\* C20: the result of GetMetrics has a count for each of the six statuses,
\* whatever the filter: the number of matching orders of that status, 0 when
\* there is none.
C20_MetricsCountEveryStatus ==
    (last.op = "GetMetrics" /\ last.err = NoErr) =>
        \A s \in Statuses :
            /\ s \in DOMAIN last.metrics[1].OrdersByStatus
            /\ last.metrics[1].OrdersByStatus[s] =
                  Cardinality({d \in orders : MatchesFilters(d, last.input) /\ d.Status = s})


\* A GetMetrics call whose filter matches no stored order.
NoOrderMatches == last.op = "GetMetrics" /\ \A d \in orders : ~MatchesFilters(d, last.input)

\* C21: when no stored order matches the filter, GetMetrics returns no error,
\* total sales 0, average ticket 0 and an empty top-product ranking.
C21_MetricsOfNoOrder ==
    NoOrderMatches =>
        /\ last.err = NoErr
        /\ last.metrics # None
        /\ last.metrics[1].TotalSales = 0
        /\ last.metrics[1].AvgTicket = 0
        /\ last.metrics[1].TopProducts = <<>>

\* Orders are stored, the filter matches none of them.
C21_Witness ==
    /\ NoOrderMatches
    /\ orders # {}
    /\ last.input.Status = Some(StatusDelivered)
    /\ last.metrics[1].TopProducts = <<>>

-----------------------------------------------------------------------------
(* The product ranking of GetMetrics, SpecTopProducts: orders of six line    *)
(* items, eleven products between two of them, and one product sold under    *)
(* two display names.                                                        *)

rankedItemsA ==
    <<Item("p1", 1, 11), Item("p2", 2, 10), Item("p3", 1, 9),
      Item("p4", 2, 8), Item("p5", 1, 7), Item("p6", 2, 1)>>

rankedItemsB ==
    <<Item("p6", 2, 5), Item("p7", 1, 5), Item("p8", 2, 4),
      Item("p9", 1, 3), Item("p10", 2, 2), Item("p11", 1, 2)>>

renamedItems ==
    <<[ID |-> "p1", Name |-> "renamed", Price |-> 1, Quantity |-> 12]>>

TopProductsCreateInputs ==
    {CreateInput(SaleTypeOnSite, items, None, None, Some(1)) :
        items \in {rankedItemsA, rankedItemsB, renamedItems}}

TopProductsFilters ==
    {OrderFilters(None, None, productID, None, None) :
        productID \in {None, Some("p6"), Some("p1")}}

CreateForTopProducts == CreateCall(TopProductsCreateInputs, TwoCodes)
GetTopProducts == GetMetricsCall(TopProductsFilters)

NextTopProducts == Tick \/ CreateForTopProducts \/ GetTopProducts

SpecTopProducts == Init /\ [][NextTopProducts]_vars

\* The line items of the stored orders the last filter matches, each with the
\* order it belongs to.
MatchedLineItems ==
    UNION {{[order |-> d.ID, item |-> d.Products[i], line |-> i] :
                i \in 1..Len(d.Products)} :
           d \in {x \in orders : MatchesFilters(x, last.input)}}

RECURSIVE SumQuantity(_)
SumQuantity(ls) ==
    IF ls = {} THEN 0
    ELSE LET l == CHOOSE x \in ls : TRUE
         IN  l.item.Quantity + SumQuantity(ls \ {l})

RECURSIVE SumRevenue(_)
SumRevenue(ls) ==
    IF ls = {} THEN 0
    ELSE LET l == CHOOSE x \in ls : TRUE
         IN  l.item.Price * l.item.Quantity + SumRevenue(ls \ {l})

\* A product is a product identifier.
LinesOfProduct(id) == {l \in MatchedLineItems : l.item.ID = id}

\* A product is a product identifier sold under one display name.
LinesOfProductName(id, name) ==
    {l \in MatchedLineItems : l.item.ID = id /\ l.item.Name = name}

RankingReturned == last.op = "GetMetrics" /\ last.err = NoErr

Ranking == last.metrics[1].TopProducts

RankingIsOrdered ==
    /\ Len(Ranking) <= 10
    /\ \A i, j \in 1..Len(Ranking) :
          i < j => Ranking[i].TotalQuantity >= Ranking[j].TotalQuantity

\* C22: the ranking has at most 10 entries, in order of non-increasing total
\* quantity; no omitted product has a higher total quantity than a listed
\* one; the total quantity and total revenue of an entry are the sums over
\* the line items of the matching orders for that product, a product being a
\* product identifier sold under one display name.
C22_TopProductsPerIDAndName ==
    RankingReturned =>
        /\ RankingIsOrdered
        /\ \A i \in 1..Len(Ranking) :
              /\ Ranking[i].TotalQuantity =
                    SumQuantity(LinesOfProductName(Ranking[i].ProductID, Ranking[i].Name))
              /\ Ranking[i].TotalRevenue =
                    SumRevenue(LinesOfProductName(Ranking[i].ProductID, Ranking[i].Name))
              /\ LinesOfProductName(Ranking[i].ProductID, Ranking[i].Name) # {}
        /\ \A l \in MatchedLineItems :
              (\A i \in 1..Len(Ranking) :
                    <<Ranking[i].ProductID, Ranking[i].Name>> # <<l.item.ID, l.item.Name>>)
                 => \A i \in 1..Len(Ranking) :
                       Ranking[i].TotalQuantity >=
                          SumQuantity(LinesOfProductName(l.item.ID, l.item.Name))

\* Eleven products are sold, two of them in the same quantity: ten are
\* listed and one of the two is left out.
C22_Witness ==
    /\ RankingReturned
    /\ Len(Ranking) = 10
    /\ Cardinality({l.item.ID : l \in MatchedLineItems}) = 11
    /\ Ranking[1].TotalQuantity = 11
    /\ Ranking[10].ProductID = "p11"
    /\ \A i \in 1..10 : Ranking[i].ProductID # "p10"

OneEntryPerProductName ==
    RankingReturned =>
        \A i, j \in 1..Len(Ranking) :
            (Ranking[i].ProductID = Ranking[j].ProductID /\ Ranking[i].Name = Ranking[j].Name)
                => i = j

\* One identifier sold under two names has two entries.
TwoEntriesOfOneProduct ==
    /\ RankingReturned
    /\ \E i, j \in 1..Len(Ranking) :
          i # j /\ Ranking[i].ProductID = Ranking[j].ProductID

-----------------------------------------------------------------------------
(* Listing: OrderHandler.GetAll over Service.GetAll and response.Paginated,  *)
(* SpecList.  The requests carry the limit and offset parameters and no      *)
(* other filter.                                                             *)

\* A query parameter: absent, a number in decimal, or any other text.
Absent == [kind |-> "absent"]
Text == [kind |-> "text"]
Number(n) == [kind |-> "number", n |-> n]

\* strconv.Atoi(c.DefaultQuery(key, def)) with the error dropped: the default
\* for an absent parameter, 0 for a text that is no number.
AtoiDefaultQuery(q, def) ==
    IF q = Absent THEN def
    ELSE IF q = Text THEN 0
    ELSE q.n

parseFilters(limitQuery, offsetQuery) ==
    [Limit |-> AtoiDefaultQuery(limitQuery, 50),
     Offset |-> AtoiDefaultQuery(offsetQuery, 0)]

\* Count: no filter is sent, every document matches.
RepoCount(docs, filters) == Cardinality(docs)

\* The documents by created_at descending; documents of equal created_at in
\* the order the server chooses, ties.
RECURSIVE SortByCreatedAt(_, _)
SortByCreatedAt(docs, ties) ==
    IF docs = {} THEN <<>>
    ELSE LET newest == {d \in docs : \A e \in docs : e.CreatedAt <= d.CreatedAt}
             first == CHOOSE d \in newest :
                         \A e \in newest :
                            IF ties = "ascending" THEN d.ID <= e.ID ELSE d.ID >= e.ID
         IN  <<first>> \o SortByCreatedAt(docs \ {first}, ties)

\* FindAll: its own defaults, then skip and limit over the sorted documents.
RepoFindAll(docs, filters, ties) ==
    LET limit == IF filters.Limit <= 0 THEN 50 ELSE filters.Limit
        offset == IF filters.Offset < 0 THEN 0 ELSE filters.Offset
        sorted == SortByCreatedAt(docs, ties)
        upto == IF offset + limit < Len(sorted) THEN offset + limit ELSE Len(sorted)
    IN  SubSeq(sorted, offset + 1, upto)

\* Service.GetAll without the cap of 100.
SvcGetAllUncapped(docs, filters, ties) ==
    LET f1 == IF filters.Limit <= 0 THEN [filters EXCEPT !.Limit = 50] ELSE filters
        f3 == IF f1.Offset < 0 THEN [f1 EXCEPT !.Offset = 0] ELSE f1
    IN  [orders |-> RepoFindAll(docs, f3, ties), total |-> RepoCount(docs, f3),
         err |-> NoErr, count |-> f3, find |-> f3]

\* Service.GetAll.  count and find are the filters handed to the
\* repository's Count and FindAll.
SvcGetAll(docs, filters, ties) ==
    LET f1 == IF filters.Limit <= 0 THEN [filters EXCEPT !.Limit = 50] ELSE filters
        f2 == IF f1.Limit > 100 THEN [f1 EXCEPT !.Limit = 100] ELSE f1
        f3 == IF f2.Offset < 0 THEN [f2 EXCEPT !.Offset = 0] ELSE f2
    IN  [orders |-> RepoFindAll(docs, f3, ties), total |-> RepoCount(docs, f3),
         err |-> NoErr, count |-> f3, find |-> f3]

\* Go's integer division and remainder: the quotient truncated toward zero,
\* the remainder with the sign of the dividend.  b # 0.
GoDiv(a, b) ==
    LET abs(x) == IF x < 0 THEN -x ELSE x
        q == abs(a) \div abs(b)
    IN  IF (a < 0) # (b < 0) THEN -q ELSE q

GoMod(a, b) == a - b * GoDiv(a, b)

\* response.Paginated.  Its first statement divides by limit: with limit 0
\* the goroutine panics (integer divide by zero) before the limit == 0 test,
\* and the Recovery middleware answers 500.
Paginated(statusCode, data, total, limit, offset) ==
    IF limit = 0
    THEN [status |-> StatusInternalServerError, panic |-> TRUE]
    ELSE LET currentPage == GoDiv(offset, limit) + 1
             pages == GoDiv(total, limit) + (IF GoMod(total, limit) # 0 THEN 1 ELSE 0)
             totalPages == IF pages = 0 THEN 1 ELSE pages
         IN  [status |-> statusCode, panic |-> FALSE, data |-> data,
              meta |-> [CurrentPage |-> currentPage, TotalPages |-> totalPages,
                        TotalItems |-> total, PageSize |-> limit]]

\* ToOrderResponse, of which the code of the order is kept.
OrderCodes(os) == [i \in 1..Len(os) |-> os[i].Code]

\* OrderHandler.GetAll: Paginated gets the limit and offset of the query, not
\* those Service.GetAll clamped in its copy of the filters.
HandlerGetAll(docs, limitQuery, offsetQuery, ties) ==
    LET filters == parseFilters(limitQuery, offsetQuery)
        r == SvcGetAll(docs, filters, ties)
    IN  [filters |-> filters, count |-> r.count, find |-> r.find, total |-> r.total,
         response |-> Paginated(StatusOK, OrderCodes(r.orders), r.total,
                                filters.Limit, filters.Offset)]

ThreeCodes == {"ORD-1", "ORD-2", "ORD-3"}

ListCreateInputs == {CreateInput(SaleTypeOnSite, oneItem, None, None, Some(1))}

LimitQueries ==
    {Absent, Text} \cup {Number(n) : n \in (-1..2) \cup {100, 101}}

OffsetQueries == {Absent, Text} \cup {Number(n) : n \in -3..3}

CreateForList == CreateCall(ListCreateInputs, ThreeCodes)

GetAllRequest ==
    \E limitQuery \in LimitQueries, offsetQuery \in OffsetQueries, ties \in TieOrders :
        LET r == HandlerGetAll(orders, limitQuery, offsetQuery, ties)
        IN  /\ last' = [op |-> "GetAll", limitQuery |-> limitQuery,
                        offsetQuery |-> offsetQuery, input |-> r.filters,
                        count |-> r.count, find |-> r.find, total |-> r.total,
                        response |-> r.response, before |-> orders]
            /\ UNCHANGED <<orders, now, calls>>

NextList == Tick \/ CreateForList \/ GetAllRequest

SpecList == Init /\ [][NextList]_vars

\* The limit and offset Service.GetAll is to hand on for the caller's.
ClampedLimit(limit) == IF limit <= 0 THEN 50 ELSE IF limit > 100 THEN 100 ELSE limit
ClampedOffset(offset) == IF offset < 0 THEN 0 ELSE offset

\* C23: GetAll hands to the repository's Count and FindAll a limit in 1..100
\* (50 for a caller's limit <= 0, 100 for one > 100, the caller's otherwise)
\* and an offset >= 0 (0 for a negative caller's offset).
C23_GetAllClampsPagination ==
    last.op = "GetAll" =>
        \A f \in {last.count, last.find} :
            /\ f.Limit \in 1..100
            /\ f.Limit = ClampedLimit(last.input.Limit)
            /\ f.Offset >= 0
            /\ f.Offset = ClampedOffset(last.input.Offset)

\* A caller's limit above the cap and a negative offset, over stored orders.
C23_Witness ==
    /\ last.op = "GetAll"
    /\ last.input.Limit = 101
    /\ last.input.Offset = -3
    /\ last.find = [Limit |-> 100, Offset |-> 0]
    /\ last.count = last.find
    /\ Cardinality(orders) = 3

\* C30: the list response reports current_page = floor(offset / limit) + 1
\* and total_pages = max(1, ceil(total_items / limit)) for every limit >= 1,
\* and for limit = 0 current_page = 1, without failing.
C30_PaginationMeta ==
    last.op = "GetAll" =>
        LET limit == last.input.Limit
            offset == last.input.Offset
            total == Cardinality(orders)
            ceil == (total + limit - 1) \div limit
        IN  /\ limit >= 1 =>
                 /\ last.response.status = StatusOK
                 /\ last.response.meta.CurrentPage = (offset \div limit) + 1
                 /\ last.response.meta.TotalPages = (IF ceil < 1 THEN 1 ELSE ceil)
            /\ limit = 0 =>
                 /\ last.response.status = StatusOK
                 /\ last.response.meta.CurrentPage = 1

\* What holds: for a limit >= 1 and an offset >= 0 the response reports the
\* two numbers of C30.
PaginationOfPositiveLimit ==
    (last.op = "GetAll" /\ last.input.Limit >= 1 /\ last.input.Offset >= 0) =>
        LET limit == last.input.Limit
            total == Cardinality(orders)
            ceil == (total + limit - 1) \div limit
        IN  /\ last.response.status = StatusOK
            /\ last.response.meta.CurrentPage = (last.input.Offset \div limit) + 1
            /\ last.response.meta.TotalPages = (IF ceil < 1 THEN 1 ELSE ceil)
            /\ last.response.meta.PageSize = limit
            /\ last.response.meta.TotalItems = total

\* limit=0 in the query: the request ends in a panic and is answered 500.
LimitZeroPanics ==
    (last.op = "GetAll" /\ last.input.Limit = 0) =>
        last.response.panic /\ last.response.status = StatusInternalServerError

\* C37: the page_size, current_page and total_pages of the list response are
\* those of the limit and offset the service handed to the repository
\* (limit 50 for a caller's limit <= 0, at most 100; offset at least 0), for
\* every limit and offset of the query.
C37_MetaOfEffectivePage ==
    last.op = "GetAll" =>
        LET limit == last.find.Limit
            offset == last.find.Offset
            ceil == (last.total + limit - 1) \div limit
        IN  /\ last.response.status = StatusOK
            /\ last.response.meta.PageSize = limit
            /\ last.response.meta.CurrentPage = (offset \div limit) + 1
            /\ last.response.meta.TotalPages = (IF ceil < 1 THEN 1 ELSE ceil)

\* limit=101 in the query: the repository is asked for 100 orders and the
\* response reports a page size of 101.
PageSizeAboveCap ==
    /\ last.op = "GetAll"
    /\ last.input.Limit = 101
    /\ last.find.Limit = 100
    /\ last.response.status = StatusOK
    /\ last.response.meta.PageSize = 101

-----------------------------------------------------------------------------
(* Public tracking: OrderHandler.Track over Service.GetByCode and            *)
(* dto.ToTrackResponse, SpecTrack.  Two stores of one order each are         *)
(* tracked side by side.  Times are in milliseconds, as the store keeps      *)
(* them.                                                                     *)

\* time.Format with the layout 2006-01-02T15:04:05Z07:00: the instant to the
\* second, the fraction dropped (stored times are in UTC).
FormatRFC3339(t) == [seconds |-> t \div 1000]

\* Mutant: the tracking response carries the customer's phone.
ToTrackResponseWithPhone(o) ==
    [Code |-> o.Code, Status |-> o.Status,
     CustomerName |-> IF IsNil(o.Customer) THEN "Guest"
                      ELSE Deref(o.Customer).Name \o " " \o Deref(o.Customer).Phone,
     UpdatedAt |-> FormatRFC3339(o.UpdatedAt)]

ToTrackResponse(o) ==
    [Code |-> o.Code, Status |-> o.Status,
     CustomerName |-> IF IsNil(o.Customer) THEN "Guest" ELSE Deref(o.Customer).Name,
     UpdatedAt |-> FormatRFC3339(o.UpdatedAt)]

SvcGetByCode(docs, code) ==
    IF code = "" THEN [err |-> Err(ErrInvalidOrderCode), o |-> None]
    ELSE FindByCode(docs, code)

HandlerTrack(docs, code) ==
    LET r == SvcGetByCode(docs, code)
    IN  IF r.err # NoErr
        THEN [status |-> IF ErrorsIs(r.err, ErrOrderNotFound) THEN StatusNotFound
                         ELSE StatusInternalServerError,
              err |-> r.err, data |-> None]
        ELSE [status |-> StatusOK, err |-> NoErr,
              data |-> Some(ToTrackResponse(Deref(r.o)))]

custAnaOtherPhone ==
    [Identification |-> "3003", IDType |-> "NIT", Name |-> "Ana", Phone |-> "3205555"]
custGuest ==
    [Identification |-> "4004", IDType |-> "CC", Name |-> "Guest", Phone |-> "3001234"]

TrackCreateInputs ==
    {CreateInput(SaleTypeDelivery, oneItem, Some(custAna), Some("Calle 1"), None),
     CreateInput(SaleTypeDelivery, twoItems, Some(custAnaOtherPhone), Some("Carrera 2"), None),
     CreateInput(SaleTypeDelivery, oneItem, Some(custLuis), Some("Calle 1"), None),
     CreateInput(SaleTypeOnSite, oneItem, None, None, Some(1)),
     CreateInput(SaleTypeOnSite, twoItems, Some(custGuest), None, Some(2))}

TrackPartialUpdateInputs ==
    {[Status |-> Some(StatusVerified), Note |-> None,
      PaymentReceiptURL |-> None, PaymentAccountID |-> None],
     [Status |-> None, Note |-> Some("no onions"),
      PaymentReceiptURL |-> Some("https://r/1"), PaymentAccountID |-> None],
     [Status |-> Some(StatusVerified), Note |-> Some("ring twice"),
      PaymentReceiptURL |-> None, PaymentAccountID |-> Some("acc-1")]}

UpdateTimes == {0, 1, 1000}

\* The orders a store can hold after a Create at time 0, and after a
\* PartialUpdate of it.
TrackOrders ==
    LET created ==
            UNION {SvcCreate({}, input, 1, code, code, 0).docs :
                      input \in TrackCreateInputs, code \in TwoCodes}
        updated ==
            UNION {SvcPartialUpdate({o}, o.Code, input, t).docs :
                      o \in created, input \in TrackPartialUpdateInputs, t \in UpdateTimes}
    IN  created \cup updated

InitTrack ==
    /\ orders = {}
    /\ now = 0
    /\ last \in {[op |-> "stores", a |-> a, b |-> b] : a \in TrackOrders, b \in TrackOrders}
    /\ calls = <<>>

\* GET /api/v1/orders/track/:code against each of the two stores.
TrackBoth ==
    /\ last.op = "stores"
    /\ last' = [op |-> "Track", a |-> last.a, b |-> last.b,
                ra |-> HandlerTrack({last.a}, last.a.Code),
                rb |-> HandlerTrack({last.b}, last.b.Code)]
    /\ UNCHANGED <<orders, now, calls>>

\* A code that is not stored, and no code.
TrackUnknown ==
    /\ last.op = "stores"
    /\ \E code \in {"ORD-9", ""} :
          last' = [op |-> "TrackUnknown", a |-> last.a, b |-> last.b, code |-> code,
                   ra |-> HandlerTrack({last.a}, code),
                   rb |-> HandlerTrack({last.b}, code)]
    /\ UNCHANGED <<orders, now, calls>>

NextTrack == TrackBoth \/ TrackUnknown

SpecTrack == InitTrack /\ [][NextTrack]_vars

\* The two orders have the same code, status, customer name (or no customer
\* both) and last-update timestamp.
AgreeOnTrackedFields(a, b) ==
    /\ a.Code = b.Code
    /\ a.Status = b.Status
    /\ IsNil(a.Customer) = IsNil(b.Customer)
    /\ ~IsNil(a.Customer) => Deref(a.Customer).Name = Deref(b.Customer).Name
    /\ a.UpdatedAt = b.UpdatedAt

\* C29: two orders that agree on code, status, customer name and last-update
\* timestamp get identical Track responses, whatever their customer
\* identification, phone, line items, total, address, note and payment
\* references.
C29_TrackDependsOnFourFields ==
    (last.op = "Track" /\ AgreeOnTrackedFields(last.a, last.b)) =>
        /\ last.ra = last.rb
        /\ last.ra.status = StatusOK

\* Two orders of customers of the same name that differ in everything the
\* response leaves out.
C29_Witness ==
    /\ last.op = "Track"
    /\ AgreeOnTrackedFields(last.a, last.b)
    /\ ~IsNil(last.a.Customer)
    /\ Deref(last.a.Customer).Phone # Deref(last.b.Customer).Phone
    /\ Deref(last.a.Customer).Identification # Deref(last.b.Customer).Identification
    /\ last.a.Products # last.b.Products
    /\ last.a.Total # last.b.Total
    /\ last.a.ShippingAddress # last.b.ShippingAddress
    /\ last.a.Note # last.b.Note
    /\ last.a.PaymentAccountID # last.b.PaymentAccountID
    /\ last.ra = last.rb
    /\ last.ra.data # None

-----------------------------------------------------------------------------
(* Fields fixed at creation, checked under Spec *)

\* C24: the internal identifier, tracking code, sale type and creation
\* timestamp of a stored order never change after Create: every step keeps,
\* for each stored order, an order of the same four values.
C24_CreationFieldsNeverChange ==
    [][\A d \in orders :
          \E e \in orders' :
             /\ e.ID = d.ID
             /\ e.Code = d.Code
             /\ e.SaleType = d.SaleType
             /\ e.CreatedAt = d.CreatedAt]_vars

\* A PartialUpdate or Modify that wrote at a later instant than the Create:
\* the stored order differs from the one before, in none of the four fields.
C24_Witness ==
    /\ IsUpdateCall(last)
    /\ last.err = NoErr
    /\ \E d \in last.before, e \in orders :
          /\ e.ID = d.ID
          /\ e # d
          /\ e.UpdatedAt > d.CreatedAt
          /\ e.Status # d.Status
          /\ <<e.Code, e.SaleType, e.CreatedAt>> = <<d.Code, d.SaleType, d.CreatedAt>>

-----------------------------------------------------------------------------
(* PartialUpdate and Modify step by step: the read (FindByCode) with the     *)
(* in-memory changes that follow it, the timestamp of Update, the UpdateOne. *)
(* A call in flight is a record of calls: the document it read, its order in *)
(* memory, the repository writes it has issued, and whether another call's   *)
(* write on its code has landed since its read (raced).                      *)

\* Service.PartialUpdate between FindByCode and repo.Update.
PartialUpdateInMemory(o, input, t) ==
    LET u == IF ~IsNil(input.Status)
             THEN UpdateStatus(o, Deref(input.Status), t)
             ELSE [err |-> NoErr, o |-> o]
    IN  IF u.err # NoErr THEN u
        ELSE [err |-> NoErr,
              o |-> [u.o EXCEPT
                        !.Note = IF ~IsNil(input.Note) THEN input.Note ELSE @,
                        !.PaymentReceiptURL =
                            IF ~IsNil(input.PaymentReceiptURL)
                            THEN input.PaymentReceiptURL ELSE @,
                        !.PaymentAccountID =
                            IF ~IsNil(input.PaymentAccountID)
                            THEN input.PaymentAccountID ELSE @]]

\* Service.Modify between FindByCode and repo.Update.
ModifyInMemory(o, input, t) ==
    IF ~CanBeModified(o) THEN [err |-> Err(ErrOrderCannotBeModified), o |-> o]
    ELSE LET u == IF Len(input.Products) > 0
                  THEN UpdateProducts(o, input.Products, t)
                  ELSE [err |-> NoErr, o |-> o]
         IN  IF u.err # NoErr THEN u
             ELSE LET o1 == [u.o EXCEPT
                                !.ShippingAddress =
                                    IF ~IsNil(input.ShippingAddress)
                                    THEN input.ShippingAddress ELSE @,
                                !.Customer =
                                    IF ~IsNil(input.Customer) THEN input.Customer ELSE @,
                                !.Note = IF ~IsNil(input.Note) THEN input.Note ELSE @]
                      verr == Validate(o1)
                  IN  IF verr # NoErr
                      THEN [err |-> Wrap("validation error", verr), o |-> o1]
                      ELSE [err |-> NoErr, o |-> o1]

\* The error of a repository call whose context is cancelled or past its
\* deadline.
ContextDeadlineExceeded == "context deadline exceeded"

UpdateReturned(p, c, err, before, after) ==
    [op |-> c.op, goroutine |-> p, code |-> c.code, input |-> c.input, err |-> err,
     order |-> IF err = NoErr THEN Some(c.o) ELSE None,
     read |-> c.read, writes |-> c.writes, raced |-> c.raced,
     overlapping |-> {calls[q].code : q \in DOMAIN calls \ {p}},
     before |-> before, after |-> after]

\* The call up to repo.Update: the code test, FindByCode, the changes in
\* memory.  A call that gets that far is in flight.
BeginUpdate(p, op, codes, inputs) ==
    /\ p \notin DOMAIN calls
    /\ \E code \in codes, input \in inputs :
         LET f == IF code = "" THEN [err |-> Err(ErrInvalidOrderCode), o |-> None]
                  ELSE FindByCode(orders, code)
             m == IF f.err # NoErr THEN [err |-> f.err, o |-> None]
                  ELSE IF op = "PartialUpdate"
                       THEN PartialUpdateInMemory(Deref(f.o), input, now)
                       ELSE ModifyInMemory(Deref(f.o), input, now)
             c == [pc |-> "stamp", op |-> op, code |-> code, input |-> input,
                   read |-> f.o, o |-> m.o, writes |-> 0, raced |-> FALSE]
         IN  IF m.err # NoErr
             THEN /\ last' = UpdateReturned(p, c, m.err, orders, orders)
                  /\ UNCHANGED calls
             ELSE /\ calls' = (p :> c) @@ calls
                  /\ UNCHANGED last
    /\ UNCHANGED <<orders, now>>

\* FindByCode fails: the call returns the repository's error.
FindFails(p, op, codes, inputs) ==
    /\ p \notin DOMAIN calls
    /\ \E code \in codes, input \in inputs :
         LET c == [pc |-> "find", op |-> op, code |-> code, input |-> input,
                   read |-> None, o |-> None, writes |-> 0, raced |-> FALSE]
         IN  last' = UpdateReturned(p, c,
                        Wrap("failed to find order", Err(ContextDeadlineExceeded)),
                        orders, orders)
    /\ UNCHANGED <<orders, now, calls>>

\* Update: o.UpdatedAt = time.Now()
StampStep(p) ==
    /\ p \in DOMAIN calls
    /\ calls[p].pc = "stamp"
    /\ calls' = [calls EXCEPT ![p].pc = "write", ![p].o.UpdatedAt = now]
    /\ UNCHANGED <<orders, now, last>>

\* Mutant: the write leaves updated_at out of the $set.
UpdateStepKeepsUpdatedAt(p) ==
    /\ p \in DOMAIN calls
    /\ calls[p].pc = "write"
    /\ LET c == [calls[p] EXCEPT !.writes = @ + 1]
           matched == {d \in orders : d.ID = c.o.ID}
           after == {IF d \in matched
                     THEN [SetDoc(d, c.o) EXCEPT !.UpdatedAt = d.UpdatedAt]
                     ELSE d : d \in orders}
       IN  /\ orders' = after
           /\ last' = UpdateReturned(p, c, NoErr, orders, after)
           /\ calls' = [q \in DOMAIN calls \ {p} |->
                           IF calls[q].code = c.code
                           THEN [calls[q] EXCEPT !.raced = TRUE] ELSE calls[q]]
    /\ UNCHANGED now

\* Mutant: the write is refused when the document is not the one read.
UpdateStepChecksVersion(p) ==
    /\ p \in DOMAIN calls
    /\ calls[p].pc = "write"
    /\ LET c == [calls[p] EXCEPT !.writes = @ + 1]
           matched == {d \in orders : d.ID = c.o.ID /\ Some(d) = c.read}
           after == {IF d \in matched THEN SetDoc(d, c.o) ELSE d : d \in orders}
           err == IF matched = {}
                  THEN Wrap("failed to update order", Err(ErrOrderNotFound))
                  ELSE NoErr
       IN  /\ orders' = after
           /\ last' = UpdateReturned(p, c, err, orders, after)
           /\ calls' = [q \in DOMAIN calls \ {p} |->
                           IF calls[q].code = c.code /\ matched # {}
                           THEN [calls[q] EXCEPT !.raced = TRUE] ELSE calls[q]]
    /\ UNCHANGED now

\* Mutant: the write stamps every document of the collection.
UpdateStepStampsAll(p) ==
    /\ p \in DOMAIN calls
    /\ calls[p].pc = "write"
    /\ LET c == [calls[p] EXCEPT !.writes = @ + 1]
           matched == {d \in orders : d.ID = c.o.ID}
           after == {IF d \in matched THEN SetDoc(d, c.o)
                     ELSE [d EXCEPT !.UpdatedAt = c.o.UpdatedAt] : d \in orders}
       IN  /\ orders' = after
           /\ last' = UpdateReturned(p, c, NoErr, orders, after)
           /\ calls' = [q \in DOMAIN calls \ {p} |->
                           IF calls[q].code = c.code
                           THEN [calls[q] EXCEPT !.raced = TRUE] ELSE calls[q]]
    /\ UNCHANGED now

\* Update: UpdateOne by _id with {"$set": o}, and the return.
UpdateStep(p) ==
    /\ p \in DOMAIN calls
    /\ calls[p].pc = "write"
    /\ LET c == [calls[p] EXCEPT !.writes = @ + 1]
           matched == {d \in orders : d.ID = c.o.ID}
           after == {IF d \in matched THEN SetDoc(d, c.o) ELSE d : d \in orders}
           err == IF matched = {}
                  THEN Wrap("failed to update order", Err(ErrOrderNotFound))
                  ELSE NoErr
       IN  /\ orders' = after
           /\ last' = UpdateReturned(p, c, err, orders, after)
           /\ calls' = [q \in DOMAIN calls \ {p} |->
                           IF calls[q].code = c.code
                           THEN [calls[q] EXCEPT !.raced = TRUE] ELSE calls[q]]
    /\ UNCHANGED now

\* Mutant: a failed write is issued again.
UpdateFailsAndRetries(p) ==
    /\ p \in DOMAIN calls
    /\ calls[p].pc = "write"
    /\ calls[p].writes < 2
    /\ calls' = [calls EXCEPT ![p].writes = @ + 1]
    /\ UNCHANGED <<orders, now, last>>

\* UpdateOne fails: nothing is written, the call returns the error wrapped.
UpdateFails(p) ==
    /\ p \in DOMAIN calls
    /\ calls[p].pc = "write"
    /\ LET c == [calls[p] EXCEPT !.writes = @ + 1]
       IN  /\ last' = UpdateReturned(p, c,
                         Wrap("failed to update order",
                              Wrap("failed to update order", Err(ContextDeadlineExceeded))),
                         orders, orders)
           /\ calls' = [q \in DOMAIN calls \ {p} |-> calls[q]]
    /\ UNCHANGED <<orders, now>>


-----------------------------------------------------------------------------
(* Two goroutines updating the order of one tracking code: SpecSameCode      *)

RaceCreateInputs ==
    {CreateInput(SaleTypeDelivery, oneItem, Some(custAna), Some("Calle 1"), None)}

RacePartialUpdateInputs ==
    {[Status |-> Some(StatusVerified), Note |-> None,
      PaymentReceiptURL |-> None, PaymentAccountID |-> None],
     [Status |-> Some(StatusCancelled), Note |-> None,
      PaymentReceiptURL |-> None, PaymentAccountID |-> None],
     [Status |-> None, Note |-> Some("no onions"),
      PaymentReceiptURL |-> None, PaymentAccountID |-> None]}

RaceModifyInputs ==
    {[Products |-> twoItems, ShippingAddress |-> None, Customer |-> None, Note |-> None]}

CreateForRace == CreateCall(RaceCreateInputs, Codes)
RacePartialUpdate(p) == BeginUpdate(p, "PartialUpdate", Codes, RacePartialUpdateInputs)
RaceModify(p) == BeginUpdate(p, "Modify", Codes, RaceModifyInputs)

NextSameCode ==
    \/ Tick
    \/ CreateForRace
    \/ \E p \in Goroutines : RacePartialUpdate(p)
    \/ \E p \in Goroutines : RaceModify(p)
    \/ \E p \in Goroutines : StampStep(p)
    \/ \E p \in Goroutines : UpdateStep(p)

SpecSameCode == Init /\ [][NextSameCode]_vars

StoredOf(docs, code) == CHOOSE d \in docs : d.Code = code

\* The last step was the write of a call that read the order before a write
\* of another call on the same code landed: the later write of a race.
LaterWrite ==
    /\ IsUpdateCall(last)
    /\ last.writes = 1
    /\ last.raced

\* C25: no version is checked on update.  When two calls on one code both
\* read the order before either writes, both succeed, and the later write
\* wins: the stored order has the later call's value in every field that is
\* always encoded (status, line items, total, timestamps) and in every
\* optional field the later call holds; an optional field that is nil in the
\* later call's order keeps the stored value, the earlier write's included.
C25_LaterWriteWins ==
    LaterWrite =>
        /\ last.err = NoErr
        /\ LET s == StoredOf(last.after, last.code)
               b == StoredOf(last.before, last.code)
               o == last.order[1]
               Kept(mine, stored) == IF IsNil(mine) THEN stored ELSE mine
           IN  /\ <<s.ID, s.Code, s.SaleType, s.CreatedAt>> = <<o.ID, o.Code, o.SaleType, o.CreatedAt>>
               /\ <<s.Status, s.Products, s.Total, s.UpdatedAt>>
                     = <<o.Status, o.Products, o.Total, o.UpdatedAt>>
               /\ s.Note = Kept(o.Note, b.Note)
               /\ s.Customer = Kept(o.Customer, b.Customer)
               /\ s.ShippingAddress = Kept(o.ShippingAddress, b.ShippingAddress)
               /\ s.TableNumber = Kept(o.TableNumber, b.TableNumber)
               /\ s.PaymentReceiptURL = Kept(o.PaymentReceiptURL, b.PaymentReceiptURL)
               /\ s.PaymentAccountID = Kept(o.PaymentAccountID, b.PaymentAccountID)

\* Both calls read the CREATED order; the earlier write cancelled it, the
\* later write verifies it: the cancellation is lost.
C25_Witness ==
    /\ LaterWrite
    /\ last.err = NoErr
    /\ last.read[1].Status = StatusCreated
    /\ StoredOf(last.before, last.code).Status = StatusCancelled
    /\ StoredOf(last.after, last.code).Status = StatusVerified

\* C25 as stated: the stored order is exactly the order of the later write.
C25_StoredExactlyLaterWrite ==
    LaterWrite =>
        /\ last.err = NoErr
        /\ StoredOf(last.after, last.code) = last.order[1]

\* The calls whose write the step is, for the stored order d.
WriterOf(d) ==
    {p \in DOMAIN calls \ DOMAIN calls' : calls[p].pc = "write" /\ calls[p].o.ID = d.ID}

\* The step changes the status of d only as a write that carries the new
\* status and the timestamp of the writing call together.
StatusWithTimestamp(d, e) ==
    e.Status # d.Status =>
        \E p \in WriterOf(d) :
            /\ e.Status = calls[p].o.Status
            /\ e.UpdatedAt = calls[p].o.UpdatedAt

\* C28: a status change and its last-update timestamp reach the store in one
\* write; the stored last-update timestamp is never before the creation
\* timestamp, and a write does not move it back unless a write of another
\* call on the same order landed between the read and the write of its call.
C28_StatusAndTimestampTogether ==
    [][\A d \in orders : \A e \in orders' :
          e.ID = d.ID =>
             /\ StatusWithTimestamp(d, e)
             /\ e.UpdatedAt >= e.CreatedAt
             /\ (e # d /\ \A p \in WriterOf(d) : ~calls[p].raced)
                   => e.UpdatedAt >= d.UpdatedAt]_vars

\* A status change written at a later instant than the one stored.
C28_Witness ==
    /\ IsUpdateCall(last)
    /\ last.writes = 1
    /\ last.err = NoErr
    /\ ~last.raced
    /\ StoredOf(last.after, last.code).Status # StoredOf(last.before, last.code).Status
    /\ StoredOf(last.after, last.code).UpdatedAt > StoredOf(last.before, last.code).UpdatedAt

\* C28 as stated: no write moves the stored last-update timestamp back.
C28_TimestampNeverGoesBack ==
    [][\A d \in orders : \A e \in orders' :
          e.ID = d.ID =>
             /\ StatusWithTimestamp(d, e)
             /\ e.UpdatedAt >= e.CreatedAt
             /\ e.UpdatedAt >= d.UpdatedAt]_vars


-----------------------------------------------------------------------------
(* Two goroutines, each updating the order of its own tracking code:         *)
(* SpecOtherCodes                                                            *)

CodeOf(p) == IF p = 1 THEN "ORD-1" ELSE "ORD-2"

OwnPartialUpdateInputs ==
    {[Status |-> Some(StatusVerified), Note |-> None,
      PaymentReceiptURL |-> None, PaymentAccountID |-> None],
     [Status |-> None, Note |-> Some("no onions"),
      PaymentReceiptURL |-> None, PaymentAccountID |-> None]}

CreateTwo == CreateCall(RaceCreateInputs, TwoCodes)
OwnPartialUpdate(p) == BeginUpdate(p, "PartialUpdate", {CodeOf(p)}, OwnPartialUpdateInputs)
OwnModify(p) == BeginUpdate(p, "Modify", {CodeOf(p)}, RaceModifyInputs)

NextOtherCodes ==
    \/ Tick
    \/ CreateTwo
    \/ \E p \in Goroutines : OwnPartialUpdate(p)
    \/ \E p \in Goroutines : OwnModify(p)
    \/ \E p \in Goroutines : StampStep(p)
    \/ \E p \in Goroutines : UpdateStep(p)

SpecOtherCodes == Init /\ [][NextOtherCodes]_vars

\* The call that returned last, run in one piece on the store it wrote to (or
\* returned from), at the instant of its timestamp.
RunAlone ==
    LET t == IF last.err = NoErr THEN last.order[1].UpdatedAt ELSE 0
    IN  IF last.op = "PartialUpdate"
        THEN SvcPartialUpdate(last.before, last.code, last.input, t)
        ELSE SvcModify(last.before, last.code, last.input, t)

\* C26: calls on different tracking codes are independent.  However the
\* repository steps of the two calls interleave, a call finds at its write
\* the order it read, and its result and the store after it are those of the
\* call run in one piece: the other call's order is left as it was.
C26_DifferentCodesIndependent ==
    IsUpdateCall(last) =>
        /\ ~last.raced
        /\ last.writes = 1 => last.read = Some(StoredOf(last.before, last.code))
        /\ last.err = RunAlone.err
        /\ last.order = RunAlone.order
        /\ last.after = RunAlone.docs
        /\ \A d \in last.before : d.Code # last.code => d \in last.after

\* A call writes while the call on the other code is in flight; the order of
\* the other code has been updated before.
C26_Witness ==
    /\ IsUpdateCall(last)
    /\ last.writes = 1
    /\ last.err = NoErr
    /\ last.overlapping # {}
    /\ last.code \notin last.overlapping
    /\ \E d \in last.before : d.Code # last.code /\ d.UpdatedAt > d.CreatedAt
    /\ StoredOf(last.after, last.code) # StoredOf(last.before, last.code)


-----------------------------------------------------------------------------
(* Repository calls that fail: SpecFaults.  One goroutine runs Create,       *)
(* PartialUpdate and Modify step by step, and each repository call may       *)
(* return the error of an expired or cancelled context instead of its        *)
(* result.  A repository call that returns an error has not changed the      *)
(* collection.                                                               *)

\* ExistsByCode fails: the call returns the error wrapped.
ExistsFails(p) ==
    /\ p \in DOMAIN calls
    /\ calls[p].pc = "exists"
    /\ LET c == [calls[p] EXCEPT !.checks = @ + 1]
       IN  /\ last' = Returned(p, c,
                         Wrap("failed to check code existence",
                              Wrap("failed to check order existence",
                                   Err(ContextDeadlineExceeded))),
                         orders)
           /\ calls' = [q \in DOMAIN calls \ {p} |-> calls[q]]
    /\ UNCHANGED <<orders, now>>

\* InsertOne fails with an error that is no duplicate key.
InsertFails(p) ==
    /\ p \in DOMAIN calls
    /\ calls[p].pc = "insert"
    /\ LET c == [calls[p] EXCEPT !.inserts = @ + 1]
       IN  /\ last' = Returned(p, c,
                         Wrap("failed to create order",
                              Wrap("failed to insert order", Err(ContextDeadlineExceeded))),
                         orders)
           /\ calls' = [q \in DOMAIN calls \ {p} |-> calls[q]]
    /\ UNCHANGED <<orders, now>>

FaultyPartialUpdateInputs ==
    {[Status |-> Some(StatusVerified), Note |-> None,
      PaymentReceiptURL |-> None, PaymentAccountID |-> None],
     [Status |-> Some(StatusDelivered), Note |-> Some("no onions"),
      PaymentReceiptURL |-> None, PaymentAccountID |-> None]}

FaultyModifyInputs ==
    {[Products |-> twoItems, ShippingAddress |-> None, Customer |-> None, Note |-> None],
     [Products |-> duplicateItems, ShippingAddress |-> None, Customer |-> None,
      Note |-> None]}

BeginPartialUpdate == BeginUpdate(1, "PartialUpdate", TwoCodes, FaultyPartialUpdateInputs)
BeginModify == BeginUpdate(1, "Modify", TwoCodes, FaultyModifyInputs)
PartialUpdateFindFails == FindFails(1, "PartialUpdate", TwoCodes, FaultyPartialUpdateInputs)
ModifyFindFails == FindFails(1, "Modify", TwoCodes, FaultyModifyInputs)

NextFaults ==
    \/ Tick
    \/ BeginCreate(1) \/ ExistsStep(1) \/ ExistsFails(1) \/ InsertStep(1) \/ InsertFails(1)
    \/ BeginPartialUpdate \/ BeginModify \/ PartialUpdateFindFails \/ ModifyFindFails
    \/ StampStep(1) \/ UpdateStep(1) \/ UpdateFails(1)

SpecFaults == Init /\ [][NextFaults]_vars

\* C27: Create, PartialUpdate and Modify each issue at most one repository
\* write, as their last repository call; when a repository call returns an
\* error the operation returns an error without a later write, and the store
\* is as the failed operation found it.
C27_OneWriteNoneAfterError ==
    /\ \A p \in DOMAIN calls :
          IF calls[p].pc \in {"exists", "insert"}
          THEN calls[p].inserts = 0 ELSE calls[p].writes = 0
    /\ last.op = "Create" =>
          /\ last.inserts <= 1
          /\ last.err # NoErr => orders = last.before
          /\ ErrorsIs(last.err, "failed to check code existence") => last.inserts = 0
          /\ last.order # None => last.err = NoErr
    /\ IsUpdateCall(last) =>
          /\ last.writes <= 1
          /\ last.err # NoErr => (last.after = last.before /\ orders = last.before)
          /\ ErrorsIs(last.err, "failed to find order") => last.writes = 0
          /\ last.order # None => last.err = NoErr

\* The UpdateOne of a Modify of a stored order failed: the call returns the
\* error, the order is stored as before.
C27_Witness ==
    /\ last.op = "Modify"
    /\ last.writes = 1
    /\ ErrorsIs(last.err, ContextDeadlineExceeded)
    /\ last.read # None
    /\ Deref(last.read) \in orders
    /\ orders = last.before
    /\ calls = <<>>


-----------------------------------------------------------------------------
(* Calls on tracking codes that are stored and that are not: SpecNotFound    *)

NotFoundPartialUpdateInputs ==
    {[Status |-> Some(StatusVerified), Note |-> Some("no onions"),
      PaymentReceiptURL |-> None, PaymentAccountID |-> None],
     [Status |-> None, Note |-> None,
      PaymentReceiptURL |-> Some("https://r/1"), PaymentAccountID |-> Some("acc-1")]}

NotFoundModifyInputs ==
    {[Products |-> twoItems, ShippingAddress |-> None, Customer |-> None, Note |-> None],
     [Products |-> <<>>, ShippingAddress |-> Some("Carrera 7"), Customer |-> Some(custLuis),
      Note |-> Some("note")]}

CreateSome == CreateCall(RaceCreateInputs, TwoCodes)
PartialUpdateAny == PartialUpdateCall(NotFoundPartialUpdateInputs, TwoCodes)
ModifyAny == ModifyCall(NotFoundModifyInputs, TwoCodes)

GetByCodeCall ==
    \E code \in TwoCodes \cup {""} :
        LET r == SvcGetByCode(orders, code)
        IN  /\ last' = [op |-> "GetByCode", code |-> code, err |-> r.err,
                        order |-> r.o, before |-> orders]
            /\ UNCHANGED <<orders, now, calls>>

NextNotFound == Tick \/ CreateSome \/ PartialUpdateAny \/ ModifyAny \/ GetByCodeCall

SpecNotFound == Init /\ [][NextNotFound]_vars

\* The last call was PartialUpdate, Modify or GetByCode with a tracking code
\* no stored order has.
CallOnAbsentCode ==
    /\ last.op \in {"PartialUpdate", "Modify", "GetByCode"}
    /\ last.code # ""
    /\ \A d \in last.before : d.Code # last.code

\* C31: PartialUpdate, Modify and GetByCode on a tracking code for which no
\* order is stored fail with OrderNotFound, and nothing is written.
C31_AbsentCodeNotFound ==
    CallOnAbsentCode =>
        /\ ErrorsIs(last.err, ErrOrderNotFound)
        /\ last.order = None
        /\ orders = last.before

\* An order is stored under the other code; the call on the absent code
\* fails and leaves it alone.
C31_Witness ==
    /\ CallOnAbsentCode
    /\ last.op = "Modify"
    /\ last.code = "ORD-2"
    /\ last.err = Err(ErrOrderNotFound)
    /\ \E d \in orders : d.Code = "ORD-1"
    /\ orders = last.before


-----------------------------------------------------------------------------
(* Status changes of the update operations, checked under Spec *)

\* The last call was a successful PartialUpdate or Modify of a stored order.
UpdateSucceeded == IsUpdateCall(last) /\ last.err = NoErr /\ StoredBefore # {}

\* C32: a successful PartialUpdate leaves the stored status as it was or
\* moves it along a pair of the transition table.  A successful Modify leaves
\* it as it was when no line items are supplied, and with line items sets it
\* to VERIFIED from CREATED, VERIFIED or IN_PROGRESS: from IN_PROGRESS this
\* is a pair the table does not have.
C32_StatusChangesOfUpdates ==
    UpdateSucceeded =>
        \A d \in StoredBefore : \A e \in StoredNow(last.code) :
            /\ last.op = "PartialUpdate" =>
                  (e.Status = d.Status \/ <<d.Status, e.Status>> \in TransitionTable)
            /\ (last.op = "Modify" /\ Len(last.input.Products) = 0) =>
                  e.Status = d.Status
            /\ (last.op = "Modify" /\ Len(last.input.Products) > 0) =>
                  /\ e.Status = StatusVerified
                  /\ d.Status \in {StatusCreated, StatusVerified, StatusInProgress}

\* A Modify with line items takes an IN_PROGRESS order back to VERIFIED.
C32_Witness ==
    /\ UpdateSucceeded
    /\ last.op = "Modify"
    /\ \E d \in StoredBefore : \E e \in StoredNow(last.code) :
          /\ d.Status = StatusInProgress
          /\ e.Status = StatusVerified
          /\ <<d.Status, e.Status>> \notin TransitionTable

\* C32 as stated: no successful PartialUpdate or Modify moves the stored
\* status along a pair that is not in the transition table.
C32_OnlyTablePairs ==
    UpdateSucceeded =>
        \A d \in StoredBefore : \A e \in StoredNow(last.code) :
            e.Status = d.Status \/ <<d.Status, e.Status>> \in TransitionTable


-----------------------------------------------------------------------------
(* Terminal statuses under racing updates, checked under SpecSameCode *)

-----------------------------------------------------------------------------
(* The life of one order under sequential PartialUpdate calls: SpecLifecycle *)

\* The statuses the order of code ORD-1 has had, oldest first, as a field of
\* the record of the last call: h extended by the stored status when that
\* differs from the last one recorded.
StatusesSoFar == IF "statuses" \in DOMAIN last THEN last.statuses ELSE <<>>

ExtendStatuses(h, docs) ==
    IF docs = {} THEN h
    ELSE LET s == (CHOOSE d \in docs : TRUE).Status
         IN  IF h # <<>> /\ h[Len(h)] = s THEN h ELSE Append(h, s)

WithStatuses(c, h) ==
    [x \in DOMAIN c \cup {"statuses"} |-> IF x = "statuses" THEN h ELSE c[x]]

LifecycleCreate ==
    \E input \in HandlerCreateInputs, code \in Codes :
        LET r == SvcCreate(orders, input, NewID(orders), code, code, now)
        IN  /\ orders' = r.docs
            /\ last' = WithStatuses(Call("Create", code, input, r),
                                    ExtendStatuses(StatusesSoFar, r.docs))
            /\ UNCHANGED <<now, calls>>

LifecyclePartialUpdate ==
    \E code \in Codes, input \in PartialUpdateInputs :
        LET r == SvcPartialUpdate(orders, code, input, now)
        IN  /\ orders' = r.docs
            /\ last' = WithStatuses(Call("PartialUpdate", code, input, r),
                                    ExtendStatuses(StatusesSoFar, r.docs))
            /\ UNCHANGED <<now, calls>>

NextLifecycle == Tick \/ LifecycleCreate \/ LifecyclePartialUpdate

SpecLifecycle == Init /\ [][NextLifecycle]_vars

\* The number of status changes the order has gone through.
StatusChanges == IF StatusesSoFar = <<>> THEN 0 ELSE Len(StatusesSoFar) - 1

\* The status changes before the last call.
StatusChangesBefore ==
    IF last.op = "PartialUpdate" /\ StoredBefore # {}
          /\ (CHOOSE d \in StoredBefore : TRUE).Status # StatusesSoFar[Len(StatusesSoFar)]
    THEN StatusChanges - 1 ELSE StatusChanges

\* C34: under sequential PartialUpdate calls on one order (no Modify) the
\* order changes status at most 4 times, never has a status it had before,
\* and once it has changed 4 times every PartialUpdate that asks for a status
\* fails and the stored order is as it was.
C34_TransitionsAcyclic ==
    /\ StatusChanges <= 4
    /\ \A i, j \in 1..Len(StatusesSoFar) : StatusesSoFar[i] = StatusesSoFar[j] => i = j
    /\ (last.op = "PartialUpdate" /\ StatusChangesBefore = 4 /\ ~IsNil(last.input.Status)) =>
          (last.err # NoErr /\ orders = last.before)

\* The order has gone CREATED, VERIFIED, IN_PROGRESS, OUT_FOR_DELIVERY,
\* DELIVERED, and a PartialUpdate that asked for CANCELLED has failed.
C34_Witness ==
    /\ StatusesSoFar = <<StatusCreated, StatusVerified, StatusInProgress,
                         StatusOutForDelivery, StatusDelivered>>
    /\ last.op = "PartialUpdate"
    /\ last.input.Status = Some(StatusCancelled)
    /\ last.err = Err(ErrInvalidStatusTransition)
    /\ StatusChangesBefore = 4

-----------------------------------------------------------------------------
(* PUT /orders with and without line items: SpecModify *)

\* The products member of a PUT body on the wire: absent, an explicitly empty
\* array, or an array of line items.  encoding/json leaves the Products slice
\* of ModifyOrderRequest nil when the member is absent and makes it an empty
\* slice for []; the code only takes len() of the slice, and both are the
\* empty sequence here.
DecodeModifyOrderRequest(wire) ==
    [Code |-> wire.Code,
     Products |-> IF IsNil(wire.Products) THEN <<>> ELSE Deref(wire.Products),
     ShippingAddress |-> wire.ShippingAddress,
     Customer |-> wire.Customer,
     Note |-> wire.Note]

ModifyWireBodies ==
    [Code : Codes,
     Products : {None, Some(<<>>), Some(twoItems)},
     ShippingAddress : {None, Some("Carrera 7")},
     Customer : {None, Some(custLuis)},
     Note : {None, Some("ring twice")}]

PutWire ==
    \E wire \in ModifyWireBodies :
        LET r == HandlerModify(orders, RequestBody(DecodeModifyOrderRequest(wire)), now)
        IN  /\ orders' = r.docs
            /\ last' = Answer("PUT", wire.Code, wire, r)
            /\ UNCHANGED <<now, calls>>

PartialUpdateBeforeModify == PartialUpdateCall(PartialUpdateInputs, Codes)

NextModify == Tick \/ CreateForHandler \/ PartialUpdateBeforeModify \/ PutWire

SpecModify == Init /\ [][NextModify]_vars

NoLineItemsSupplied(wire) == wire.Products \in {None, Some(<<>>)}

\* e is d with the shipping address, customer and note of the body where the
\* body has them, and some last-update timestamp; every other field is d's.
ModifyAppliedWithoutProducts(d, wire, e) ==
    e = [d EXCEPT !.ShippingAddress =
                      IF wire.ShippingAddress # None THEN wire.ShippingAddress ELSE @,
                  !.Customer = IF wire.Customer # None THEN wire.Customer ELSE @,
                  !.Note = IF wire.Note # None THEN wire.Note ELSE @,
                  !.UpdatedAt = e.UpdatedAt]

\* C35: a successful Modify whose body has no line items (products absent or
\* an empty array) leaves line items, total and status as stored and applies
\* only the supplied shipping address, customer and note; a successful
\* Modify changes the status only when it has line items, and then the
\* status is VERIFIED.
C35_ModifyWithoutLineItems ==
    (last.op = "PUT" /\ last.status = StatusOK) =>
        \A d \in StoredBefore : \A e \in StoredNow(last.code) :
            /\ NoLineItemsSupplied(last.input) =>
                  /\ e.Products = d.Products
                  /\ e.Total = d.Total
                  /\ e.Status = d.Status
                  /\ ModifyAppliedWithoutProducts(d, last.input, e)
            /\ ~NoLineItemsSupplied(last.input) => e.Status = StatusVerified
            /\ e.Status # d.Status => ~NoLineItemsSupplied(last.input)

\* An IN_PROGRESS order took a PUT with "products": [] and a new note: it is
\* still IN_PROGRESS, with the new note.
C35_Witness ==
    /\ last.op = "PUT"
    /\ last.status = StatusOK
    /\ last.input.Products = Some(<<>>)
    /\ last.input.Note = Some("ring twice")
    /\ \E d \in StoredBefore : d.Status = StatusInProgress /\ d.Note = None
    /\ \E e \in StoredNow(last.code) :
          e.Status = StatusInProgress /\ e.Note = Some("ring twice")

\* The same with the products member absent.
ModifyWithAbsentProducts ==
    /\ last.op = "PUT"
    /\ last.status = StatusOK
    /\ last.input.Products = None
    /\ \E d \in StoredBefore : d.Status = StatusInProgress

-----------------------------------------------------------------------------
(* internal/domain/product: the Product entity and its stock: SpecStock     *)
(* draws a product that passes Validate and applies UpdateStock and          *)
(* DecrementStock to it.  Photos, Description, IsAddon, IsAvailable and      *)
(* CreatedAt are read by none of the three methods and are not carried.      *)

ErrInvalidCompanyID == "company_id is required"
ErrInvalidSalePointID == "sale_point_id is required"
ErrInvalidName == "product name is required"
ErrInvalidCategory == "category is required"
ErrInvalidStock == "stock must be set when is_unlimited_stock is false"
ErrStockMustBeNullForUnlimited == "stock must be null when is_unlimited_stock is true"
ErrNegativeStock == "stock cannot be negative"
ErrInsufficientStock == "insufficient stock available"
ErrCannotUpdateStockForUnlimited == "cannot update stock for unlimited stock products"
ErrNoPriceVariations == "at least one price variation is required"
ErrInvalidPriceVariationType == "price variation type is required"
ErrNegativePrice == "price cannot be negative"
ErrDuplicatePriceVariationType == "duplicate price variation type"
ErrInvalidMaxSelections == "max_selections cannot be negative"
ErrNoOptionsForMaxSelections == "options must be provided when max_selections > 0"
ErrInvalidAddonName == "addon name is required"
ErrNegativeAddonPrice == "addon price cannot be negative"

\* Go's int, scaled down to IntBits bits: the values IntMin..IntMax, and
\* arithmetic that wraps around.
IntBits == 4
IntMax == 2^(IntBits - 1) - 1
IntMin == -(2^(IntBits - 1))
WrapInt(x) == ((x - IntMin) % 2^IntBits) + IntMin

\* for _, addon := range addons: the first addon with an empty name or a
\* negative price.
RECURSIVE ValidateAddons(_, _)
ValidateAddons(addons, i) ==
    IF i > Len(addons) THEN NoErr
    ELSE IF addons[i].Name = "" THEN Err(ErrInvalidAddonName)
    ELSE IF addons[i].Price < 0 THEN Err(ErrNegativeAddonPrice)
    ELSE ValidateAddons(addons, i + 1)

\* for i, pv := range p.PriceVariations
RECURSIVE ValidatePriceVariations(_, _)
ValidatePriceVariations(pvs, i) ==
    IF i > Len(pvs) THEN NoErr
    ELSE LET pv == pvs[i]
         IN  IF pv.Type = "" THEN Err(ErrInvalidPriceVariationType)
             ELSE IF pv.Price < 0 THEN Err(ErrNegativePrice)
             ELSE IF pv.IncludedAddons.MaxSelections < 0 THEN Err(ErrInvalidMaxSelections)
             ELSE IF pv.IncludedAddons.MaxSelections > 0
                        /\ Len(pv.IncludedAddons.Options) = 0
                  THEN Err(ErrNoOptionsForMaxSelections)
             ELSE IF ValidateAddons(pv.IncludedAddons.Options, 1) # NoErr
                  THEN ValidateAddons(pv.IncludedAddons.Options, 1)
             ELSE IF \E j \in (i + 1)..Len(pvs) : pvs[j].Type = pv.Type
                  THEN Err(ErrDuplicatePriceVariationType)
             ELSE ValidatePriceVariations(pvs, i + 1)

ProductValidate(p) ==
    IF p.CompanyID = "" THEN Err(ErrInvalidCompanyID)
    ELSE IF p.SalePointID = "" THEN Err(ErrInvalidSalePointID)
    ELSE IF p.Name = "" THEN Err(ErrInvalidName)
    ELSE IF p.Category = "" THEN Err(ErrInvalidCategory)
    ELSE IF Len(p.PriceVariations) = 0 THEN Err(ErrNoPriceVariations)
    ELSE IF ~p.IsUnlimitedStock /\ IsNil(p.Stock) THEN Err(ErrInvalidStock)
    ELSE IF p.IsUnlimitedStock /\ ~IsNil(p.Stock) THEN Err(ErrStockMustBeNullForUnlimited)
    ELSE IF ~IsNil(p.Stock) /\ Deref(p.Stock) < 0 THEN Err(ErrNegativeStock)
    ELSE IF ValidatePriceVariations(p.PriceVariations, 1) # NoErr
         THEN ValidatePriceVariations(p.PriceVariations, 1)
    ELSE ValidateAddons(p.AvailableAddons, 1)

\* UpdateStock as the stock rules would have it: a nil new stock is refused.
UpdateStockRequiresStock(p, newStock, t) ==
    IF p.IsUnlimitedStock THEN [err |-> Err(ErrCannotUpdateStockForUnlimited), p |-> p]
    ELSE IF IsNil(newStock) THEN [err |-> Err(ErrInvalidStock), p |-> p]
    ELSE IF Deref(newStock) < 0 THEN [err |-> Err(ErrNegativeStock), p |-> p]
    ELSE [err |-> NoErr, p |-> [p EXCEPT !.Stock = newStock, !.UpdatedAt = t]]

UpdateStock(p, newStock, t) ==
    IF p.IsUnlimitedStock THEN [err |-> Err(ErrCannotUpdateStockForUnlimited), p |-> p]
    ELSE IF ~IsNil(newStock) /\ Deref(newStock) < 0
    THEN [err |-> Err(ErrNegativeStock), p |-> p]
    ELSE [err |-> NoErr, p |-> [p EXCEPT !.Stock = newStock, !.UpdatedAt = t]]

DecrementStock(p, amount, t) ==
    IF p.IsUnlimitedStock THEN [err |-> NoErr, p |-> p]
    ELSE IF IsNil(p.Stock) THEN [err |-> Err(ErrInvalidStock), p |-> p]
    ELSE LET newStock == WrapInt(Deref(p.Stock) - amount)
         IN  IF newStock < 0 THEN [err |-> Err(ErrInsufficientStock), p |-> p]
             ELSE [err |-> NoErr,
                   p |-> [p EXCEPT !.Stock = Some(newStock), !.UpdatedAt = t]]

addonCheese == [Name |-> "cheese", Price |-> 1]
addonNoName == [Name |-> "", Price |-> 1]

PriceVariation(type, price, maxSelections, options) ==
    [Type |-> type, Price |-> price,
     IncludedAddons |-> [MaxSelections |-> maxSelections, Options |-> options]]

\* The products drawn: with and without the required fields, every
\* combination of stock flag and stock.
DrawnProducts ==
    [CompanyID : {"c1"}, SalePointID : {"sp1"}, Name : {"", "arepa"}, Category : {"food"},
     PriceVariations : {<<>>,
                        <<PriceVariation("single", MaxPrice, 0, <<>>)>>,
                        <<PriceVariation("combo", MaxPrice, 1, <<addonCheese>>),
                          PriceVariation("combo", 1, 0, <<>>)>>,
                        <<PriceVariation("combo", MaxPrice, 1, <<>>)>>},
     IsUnlimitedStock : BOOLEAN,
     Stock : {None, Some(-1), Some(0), Some(2), Some(IntMax)},
     AvailableAddons : {<<>>, <<addonCheese>>, <<addonNoName>>},
     UpdatedAt : {0}]

ValidProducts == {p \in DrawnProducts : ProductValidate(p) = NoErr}

NewStocks == {None, Some(-1), Some(0), Some(1), Some(IntMax)}
Amounts == {IntMin, -1, 0, 1, 2, IntMax}

InitStock ==
    /\ orders = {}
    /\ now = 0
    /\ last \in {[op |-> "product", product |-> p] : p \in ValidProducts}
    /\ calls = <<>>

StockCall(op, input, r) ==
    [op |-> op, input |-> input, err |-> r.err, product |-> r.p, before |-> last.product]

UpdateStockCall ==
    \E newStock \in NewStocks :
        /\ last' = StockCall("UpdateStock", newStock, UpdateStock(last.product, newStock, now))
        /\ UNCHANGED <<orders, now, calls>>

DecrementStockCall ==
    \E amount \in Amounts :
        /\ last' = StockCall("DecrementStock", amount,
                             DecrementStock(last.product, amount, now))
        /\ UNCHANGED <<orders, now, calls>>

NextStock == Tick \/ UpdateStockCall \/ DecrementStockCall

SpecStock == InitStock /\ [][NextStock]_vars

\* The stock rules: unlimited stock has a null stock, limited stock has a
\* stock >= 0.
StockRulesHold(p) ==
    IF p.IsUnlimitedStock THEN IsNil(p.Stock)
    ELSE ~IsNil(p.Stock) /\ Deref(p.Stock) >= 0

IsStockCall == last.op \in {"UpdateStock", "DecrementStock"}

\* C38: from a product that passes Validate, after every sequence of
\* UpdateStock and DecrementStock calls the stock rules hold, and a call
\* that failed has left the stock as it was.
C38_StockRulesPreserved ==
    /\ StockRulesHold(last.product)
    /\ (IsStockCall /\ last.err # NoErr) => last.product.Stock = last.before.Stock

\* A product of limited stock took UpdateStock(nil) without error: its stock
\* is null and it no longer passes Validate.
LimitedStockCleared ==
    /\ last.op = "UpdateStock"
    /\ last.input = None
    /\ last.err = NoErr
    /\ StockRulesHold(last.before)
    /\ ~last.product.IsUnlimitedStock
    /\ IsNil(last.product.Stock)
    /\ ProductValidate(last.product) = Err(ErrInvalidStock)

\* What holds: a failed call leaves the product as it was; DecrementStock,
\* and UpdateStock with a non-nil stock, keep the stock rules of a product
\* that met them.
StockRulesButForNil ==
    IsStockCall =>
        /\ last.err # NoErr => last.product = last.before
        /\ (StockRulesHold(last.before) /\ (last.op = "UpdateStock" => ~IsNil(last.input)))
              => StockRulesHold(last.product)

\* The subtraction wrapped around: a stock of IntMax decremented by -1.
DecrementWraps ==
    /\ last.op = "DecrementStock"
    /\ last.before.Stock = Some(IntMax)
    /\ last.input = -1
    /\ last.err = Err(ErrInsufficientStock)

-----------------------------------------------------------------------------
(* The CORS middleware, registered on the router before every route:        *)
(* SpecCORS loads the allowed origins from the environment and sends         *)
(* requests through the middleware.                                          *)

StatusNoContent == 204
StatusForbidden == 403

\* getEnvAsSlice: the value of the variable as its comma-separated parts,
\* each trimmed; <<>> is the unset (or empty) variable.  Empty parts are
\* dropped, and the default is taken when nothing is left.
getEnvAsSlice(parts, defaultValue) ==
    LET result == SelectSeq(parts, LAMBDA v : v # "")
    IN  IF Len(result) = 0 THEN defaultValue ELSE result

InSlice(list, v) == \E i \in 1..Len(list) : list[i] = v

\* The answer to a request: status, the CORS headers set (none when the
\* request is denied), whether the preflight branch was reached and whether
\* c.Next() ran the route handler, which answers 200 here.
CORSAnswer(status, allowOrigin, preflight, handlerRan) ==
    [status |-> status, allowOrigin |-> allowOrigin,
     preflight |-> preflight, handlerRan |-> handlerRan]

\* Mutant: the preflight is answered before the origin is looked at.
CORSPreflightFirst(allowedOrigins, method, origin) ==
    LET hasWildcard == InSlice(allowedOrigins, "*")
        allowedOrigin ==
            IF Len(allowedOrigins) > 0 /\ ~hasWildcard /\ origin # ""
                  /\ InSlice(allowedOrigins, origin)
            THEN origin ELSE "*"
    IN  IF method = "OPTIONS"
        THEN CORSAnswer(StatusNoContent, Some(allowedOrigin), TRUE, FALSE)
        ELSE IF Len(allowedOrigins) > 0 /\ ~hasWildcard /\ origin # ""
                   /\ allowedOrigin = "*"
        THEN CORSAnswer(StatusForbidden, None, FALSE, FALSE)
        ELSE CORSAnswer(StatusOK, Some(allowedOrigin), FALSE, TRUE)

CORS(allowedOrigins, method, origin) ==
    LET hasWildcard == InSlice(allowedOrigins, "*")
        allowedOrigin ==
            IF Len(allowedOrigins) > 0 /\ ~hasWildcard /\ origin # ""
                  /\ InSlice(allowedOrigins, origin)
            THEN origin ELSE "*"
    IN  IF Len(allowedOrigins) > 0 /\ ~hasWildcard /\ origin # ""
              /\ allowedOrigin = "*" /\ origin # ""
        THEN CORSAnswer(StatusForbidden, None, FALSE, FALSE)
        ELSE IF method = "OPTIONS"
        THEN CORSAnswer(StatusNoContent, Some(allowedOrigin), TRUE, FALSE)
        ELSE CORSAnswer(StatusOK, Some(allowedOrigin), FALSE, TRUE)

OriginA == "https://a.example"
OriginB == "https://b.example"

\* Values of CORS_ALLOWED_ORIGINS.
AllowedOriginsEnv ==
    {<<>>, <<"*">>, <<"", "">>, <<OriginA>>, <<OriginA, "">>,
     <<OriginA, OriginB>>, <<OriginA, "*">>}

Methods == {"GET", "POST", "PUT", "OPTIONS"}
Origins == {"", OriginA, OriginB, "https://evil.example", "*"}

InitCORS ==
    /\ orders = {}
    /\ now = 0
    /\ last \in {[op |-> "LoadConfig", env |-> e,
                  AllowedOrigins |-> getEnvAsSlice(e, <<"*">>)] : e \in AllowedOriginsEnv}
    /\ calls = <<>>

CORSRequest ==
    \E method \in Methods, origin \in Origins :
        /\ last' = [op |-> "request", env |-> last.env,
                    AllowedOrigins |-> last.AllowedOrigins,
                    method |-> method, origin |-> origin,
                    response |-> CORS(last.AllowedOrigins, method, origin)]
        /\ UNCHANGED <<orders, now, calls>>

NextCORS == CORSRequest

SpecCORS == InitCORS /\ [][NextCORS]_vars

SpecificOriginsMode == ~InSlice(last.AllowedOrigins, "*")

\* C39: with no "*" in the allowed list, a request with a non-empty Origin
\* that is not in the list is answered 403 with neither the preflight branch
\* nor the route handler run; a request without Origin is not denied, and
\* reaches the route handler unless it is an OPTIONS request; an OPTIONS
\* request of an allowed origin is answered 204, with the origin echoed,
\* and the route handler does not run.
C39_SpecificOriginsMode ==
    (last.op = "request" /\ SpecificOriginsMode) =>
        LET r == last.response
            listed == InSlice(last.AllowedOrigins, last.origin)
        IN  /\ (last.origin # "" /\ ~listed) =>
                  (r.status = StatusForbidden /\ ~r.preflight /\ ~r.handlerRan)
            /\ last.origin = "" =>
                  /\ r.status # StatusForbidden
                  /\ last.method # "OPTIONS" => r.handlerRan
            /\ (listed /\ last.method = "OPTIONS") =>
                  /\ r.status = StatusNoContent
                  /\ ~r.handlerRan
                  /\ r.allowOrigin = Some(last.origin)

\* An OPTIONS request of an origin that is not in the list of two: 403.
C39_Witness ==
    /\ last.op = "request"
    /\ last.AllowedOrigins = <<OriginA, OriginB>>
    /\ last.method = "OPTIONS"
    /\ last.origin = "https://evil.example"
    /\ last.response.status = StatusForbidden
    /\ ~last.response.preflight

\* An allowed preflight, and a request without Origin that reached the
\* route handler.
AllowedPreflight ==
    /\ last.op = "request"
    /\ SpecificOriginsMode
    /\ last.method = "OPTIONS"
    /\ last.origin = OriginB
    /\ last.response.status = StatusNoContent

NoOriginLetThrough ==
    /\ last.op = "request"
    /\ SpecificOriginsMode
    /\ last.origin = ""
    /\ last.method = "POST"
    /\ last.response.handlerRan

\* The configuration always has an allowed origin: an unset or empty
\* variable gives the wildcard.
AllowedOriginsNeverEmpty == Len(last.AllowedOrigins) > 0

\* An empty allowed list, which LoadConfig never produces, would allow every
\* origin.
EmptyListAllowsAll ==
    CORS(<<>>, "GET", "https://evil.example") =
        CORSAnswer(StatusOK, Some("*"), FALSE, TRUE)

====
